---------------------------- MODULE Spec2Model ----------------------------
(***************************************************************************)
(* Model of unittest/force-styles/bond-style.cpp: the YAML fixture reader  *)
(* (YamlReader / TestConfigReader), the TestConfig it fills and main's use *)
(* of it.                                                                  *)
(*                                                                         *)
(* Text is modelled character by character: a scalar's text is a sequence  *)
(* of one-character strings, and atoi/atof/sscanf/getline are computed on  *)
(* it the way the C library does.  A double is modelled exactly as a       *)
(* decimal m * 10^e (record [m, e], normalised) so that 1e-14, 0 and -1    *)
(* are distinct values.  std::vector<coord_t> is a function on 0..size-1.  *)
(***************************************************************************)
EXTENDS Integers, Sequences, FiniteSets, TLC

(***************************************************************************)
(* Bounds of the model.                                                    *)
(***************************************************************************)
\* most values one ErrorStats is given between two resets
MaxSamples == 2

\* largest natoms a fixture of the model names
MaxAtoms == 2
\* key/value pairs the event stream of one file carries at most
MaxPairs == 2

(***************************************************************************)
(* Characters and the C library's text-to-number conversions.              *)
(***************************************************************************)
Digits == {"0", "1", "2", "3", "4", "5", "6", "7", "8", "9"}

IsDigit(c) == c \in Digits

DigitVal(c) ==
    CASE c = "0" -> 0 [] c = "1" -> 1 [] c = "2" -> 2 [] c = "3" -> 3
      [] c = "4" -> 4 [] c = "5" -> 5 [] c = "6" -> 6 [] c = "7" -> 7
      [] c = "8" -> 8 [] c = "9" -> 9

\* isspace() restricted to the characters the model's texts hold
IsSpace(c) == c \in {" ", "\t", "\n"}

\* first position >= i of s that holds no white space (Len(s)+1 if none)
RECURSIVE SkipWs(_, _)
SkipWs(s, i) ==
    IF i <= Len(s) /\ IsSpace(s[i]) THEN SkipWs(s, i + 1) ELSE i

RECURSIVE Pow10(_)
Pow10(k) == IF k <= 0 THEN 1 ELSE 10 * Pow10(k - 1)

\* the run of decimal digits of s at i, after the digits acc * 10^z and n
\* of them: the value sig * 10^zeros, the count of digits, the end.  The
\* zeros a run ends in are counted, not multiplied in, so that a mantissa
\* of seventeen digits stays within the integers.
RECURSIVE ScanDigits(_, _, _, _, _)
ScanDigits(s, i, acc, z, n) ==
    IF i <= Len(s) /\ IsDigit(s[i])
    THEN IF DigitVal(s[i]) = 0 /\ acc # 0
         THEN ScanDigits(s, i + 1, acc, z + 1, n + 1)
         ELSE ScanDigits(s, i + 1, acc * Pow10(z + 1) + DigitVal(s[i]), 0,
                         n + 1)
    ELSE [sig |-> acc, zeros |-> z, n |-> n, pos |-> i]

\* an optional sign at i: its factor and the position after it
ScanSign(s, i) ==
    IF i <= Len(s) /\ s[i] = "-" THEN [sgn |-> -1, pos |-> i + 1]
    ELSE IF i <= Len(s) /\ s[i] = "+" THEN [sgn |-> 1, pos |-> i + 1]
    ELSE [sgn |-> 1, pos |-> i]

IntValue(i, sgn, d) ==
    IF d.n > 0
    THEN [ok |-> TRUE, val |-> sgn * d.sig * Pow10(d.zeros), pos |-> d.pos]
    ELSE [ok |-> FALSE, val |-> 0, pos |-> i]

IntSign(s, i, sg) == IntValue(i, sg.sgn, ScanDigits(s, sg.pos, 0, 0, 0))

\* strtol(s+i, &end, 10) as atoi and sscanf's %d use it: white space, sign,
\* digits; ok is FALSE (and nothing is consumed) when no digit follows
ScanInt(s, i) == IntSign(s, i, ScanSign(s, SkipWs(s, i)))

\* a double: m * 10^e, with m not divisible by 10 unless it is 0 (then e = 0)
RECURSIVE Norm(_, _)
Norm(m, e) ==
    IF m = 0 THEN [m |-> 0, e |-> 0]
    ELSE IF m % 10 = 0 THEN Norm(m \div 10, e + 1)
    ELSE [m |-> m, e |-> e]

Zero == Norm(0, 0)

Real(n) == Norm(n, 0)

\* the exponent part of a decimal literal at p: e|E, an optional sign and
\* digits; it is taken only when a digit follows (has), else nothing is
ExponentDigits(p, esg, ed) ==
    IF ed.n > 0
    THEN [has |-> TRUE, val |-> esg.sgn * ed.sig * Pow10(ed.zeros),
          pos |-> ed.pos]
    ELSE [has |-> FALSE, val |-> 0, pos |-> p]

ExponentSign(s, p, esg) ==
    ExponentDigits(p, esg, ScanDigits(s, esg.pos, 0, 0, 0))

ScanExponent(s, p) ==
    IF p <= Len(s) /\ s[p] \in {"e", "E"}
    THEN ExponentSign(s, p, ScanSign(s, p + 1))
    ELSE [has |-> FALSE, val |-> 0, pos |-> p]

\* the digits after the integer part ip: "." and a run of digits, if any
ScanFraction(s, ip) ==
    IF ip.pos <= Len(s) /\ s[ip.pos] = "."
    THEN ScanDigits(s, ip.pos + 1, ip.sig, ip.zeros, 0)
    ELSE [sig |-> ip.sig, zeros |-> ip.zeros, n |-> 0, pos |-> ip.pos]

RealValue(i, sgn, digits, fp, ex) ==
    IF digits > 0
    THEN [ok |-> TRUE,
          val |-> Norm(sgn * fp.sig, ex.val - fp.n + fp.zeros),
          pos |-> ex.pos]
    ELSE [ok |-> FALSE, val |-> Zero, pos |-> i]

RealFraction(s, i, sgn, ip, fp) ==
    RealValue(i, sgn, ip.n + fp.n, fp, ScanExponent(s, fp.pos))

RealInteger(s, i, sgn, ip) ==
    RealFraction(s, i, sgn, ip, ScanFraction(s, ip))

RealSign(s, i, sg) ==
    RealInteger(s, i, sg.sgn, ScanDigits(s, sg.pos, 0, 0, 0))

\* strtod(s+i, &end) as atof and sscanf's %lg use it, for decimal text:
\* white space, sign, digits [. digits] [e|E [sign] digits]; ok is FALSE
\* (and nothing is consumed) when no digit is found
ScanReal(s, i) == RealSign(s, i, ScanSign(s, SkipWs(s, i)))

\* atoi(text): strtol's value, 0 when the text starts with no number
atoi(s) == ScanInt(s, 1).val

\* atof(text): strtod's value, 0 when the text starts with no number
atof(s) == ScanReal(s, 1).val

\* the lines std::getline(data, line, '\n') yields one after the other: the
\* text is cut at each '\n'; what follows the last '\n' is a line only when
\* it is not empty
NextNewline(s, i) ==
    IF \E k \in i .. Len(s) : s[k] = "\n"
    THEN CHOOSE k \in i .. Len(s) :
             s[k] = "\n" /\ \A j \in i .. k - 1 : s[j] # "\n"
    ELSE Len(s) + 1

RECURSIVE getlines(_, _)
getlines(s, i) ==
    IF i > Len(s) THEN <<>>
    ELSE <<SubSeq(s, i, NextNewline(s, i) - 1)>>
         \o getlines(s, NextNewline(s, i) + 1)

Lines(s) == getlines(s, 1)

(***************************************************************************)
(* std::string operations the decoders use.  Positions are 0-based as in   *)
(* C++; std::string::npos is modelled by the value npos.                   *)
(***************************************************************************)
npos == -1

Blank == {" ", "\t"}

\* s.find_first_of(chars, pos): first index >= pos holding a character of chars
RECURSIVE find_first_of(_, _, _)
find_first_of(s, chars, pos) ==
    IF pos = npos \/ pos >= Len(s) THEN npos
    ELSE IF s[pos + 1] \in chars THEN pos
    ELSE find_first_of(s, chars, pos + 1)

\* s.find_first_not_of(chars, pos)
RECURSIVE find_first_not_of(_, _, _)
find_first_not_of(s, chars, pos) ==
    IF pos = npos \/ pos >= Len(s) THEN npos
    ELSE IF s[pos + 1] \notin chars THEN pos
    ELSE find_first_not_of(s, chars, pos + 1)

\* s.substr(pos, count): count characters from pos, or up to the end of s
\* when fewer are left or count is npos (pos <= size is the caller's duty)
substr(s, pos, count) ==
    LET last == IF count = npos \/ pos + count > Len(s) THEN Len(s)
                ELSE pos + count
    IN  SubSeq(s, pos + 1, last)

(***************************************************************************)
(* The data model: coord_t, stress_t, TestConfig.                          *)
(***************************************************************************)
coord_t(x, y, z) == [x |-> x, y |-> y, z |-> z]

stress_t(xx, yy, zz, xy, xz, yz) ==
    [xx |-> xx, yy |-> yy, zz |-> zz, xy |-> xy, xz |-> xz, yz |-> yz]

\* a std::vector<coord_t> of n value-initialised entries, indexed 0..n-1
ZeroVector(n) == [i \in 0 .. n - 1 |-> coord_t(Zero, Zero, Zero)]

size(v) == Cardinality(DOMAIN v)

\* TestConfig::TestConfig()
TestConfig ==
    [lammps_version |-> <<>>,
     date_generated |-> <<>>,
     epsilon        |-> [m |-> 1, e |-> -14],
     prerequisites  |-> <<>>,
     pre_commands   |-> <<>>,
     post_commands  |-> <<>>,
     input_file     |-> <<>>,
     bond_style     |-> <<"z", "e", "r", "o">>,
     bond_coeff     |-> <<>>,
     natoms         |-> 0,
     init_energy    |-> Zero,
     run_energy     |-> Zero,
     init_stress    |-> stress_t(Zero, Zero, Zero, Zero, Zero, Zero),
     run_stress     |-> stress_t(Zero, Zero, Zero, Zero, Zero, Zero),
     init_forces    |-> ZeroVector(0),
     run_forces     |-> ZeroVector(0)]

(***************************************************************************)
(* Indeterminate values.  A local the code reads without having set it     *)
(* (coord_t xyz, stress_t stress, run_forces' int tag) holds any value; a   *)
(* store through an index outside a vector is undefined.  The model draws   *)
(* the value from these sets and the effect of the store from               *)
(* StoreOutcomes below.                                                     *)
(***************************************************************************)
Garbage == Norm(-1234, 0)

IndeterminateReals == {Zero, Garbage}

IndeterminateInts == {-1, 0, 1}

(***************************************************************************)
(* The decoders of TestConfigReader.  objs maps the name of each TestConfig *)
(* object to its value; config is the name of the object the reader was     *)
(* constructed on, and "test_config" the name of the global one.  A decoder *)
(* yields the set of outcomes [objs, fault] it can produce: one outcome     *)
(* unless it reads an indeterminate value or stores out of bounds; fault    *)
(* is "none" or names what ended the process.                               *)
(***************************************************************************)
Outcome(objs, fault) == [objs |-> objs, fault |-> fault]

\* one line of the prerequisites block: the pair pushed, or <<>> if skipped
PrerequisiteLine(line) ==
    LET found1 == find_first_of(line, Blank, 0)
        k      == substr(line, 0, found1)
        found2 == find_first_not_of(line, Blank, found1)
        value  == substr(line, found2, find_first_of(line, Blank, found2))
    IN  IF found2 = npos THEN <<>> ELSE << <<k, value>> >>

RECURSIVE PrerequisiteLines(_, _)
PrerequisiteLines(lines, i) ==
    IF i > Len(lines) THEN <<>>
    ELSE PrerequisiteLine(lines[i]) \o PrerequisiteLines(lines, i + 1)

prerequisites(objs, config, text) ==
    LET cleared == [objs EXCEPT ![config].prerequisites = <<>>]
    IN  {Outcome([cleared EXCEPT !["test_config"].prerequisites =
                      @ \o PrerequisiteLines(Lines(text), 1)], "none")}

pre_commands(objs, config, text) ==
    LET cleared == [objs EXCEPT ![config].pre_commands = <<>>]
    IN  {Outcome([cleared EXCEPT !["test_config"].pre_commands =
                      @ \o Lines(text)], "none")}

post_commands(objs, config, text) ==
    LET cleared == [objs EXCEPT ![config].post_commands = <<>>]
    IN  {Outcome([cleared EXCEPT !["test_config"].post_commands =
                      @ \o Lines(text)], "none")}

lammps_version(objs, config, text) ==
    {Outcome([objs EXCEPT ![config].lammps_version = text], "none")}

date_generated(objs, config, text) ==
    {Outcome([objs EXCEPT ![config].date_generated = text], "none")}

epsilon(objs, config, text) ==
    {Outcome([objs EXCEPT ![config].epsilon = atof(text)], "none")}

input_file(objs, config, text) ==
    {Outcome([objs EXCEPT ![config].input_file = text], "none")}

bond_style(objs, config, text) ==
    {Outcome([objs EXCEPT ![config].bond_style = text], "none")}

bond_coeff(objs, config, text) ==
    LET cleared == [objs EXCEPT ![config].bond_coeff = <<>>]
    IN  {Outcome([cleared EXCEPT !["test_config"].bond_coeff =
                      @ \o Lines(text)], "none")}

natoms(objs, config, text) ==
    {Outcome([objs EXCEPT ![config].natoms = atoi(text)], "none")}

init_energy(objs, config, text) ==
    {Outcome([objs EXCEPT ![config].init_energy = atof(text)], "none")}

run_energy(objs, config, text) ==
    {Outcome([objs EXCEPT ![config].run_energy = atof(text)], "none")}

\* sscanf(text, "%lg %lg %lg %lg %lg %lg", ...): the values converted, in
\* order, up to the first conversion that fails
RECURSIVE ScanReals(_, _, _)
ScanReals(s, i, count) ==
    IF count = 0 THEN <<>>
    ELSE LET r == ScanReal(s, i)
         IN  IF r.ok THEN <<r.val>> \o ScanReals(s, r.pos, count - 1)
             ELSE <<>>

\* the values a local double holds after sscanf: the k-th converted value,
\* or an indeterminate one when fewer than k conversions succeeded
Scanned(vals, k) ==
    IF k <= Len(vals) THEN {vals[k]} ELSE IndeterminateReals

\* the stress_t a stress decoder builds from its text
ScannedStress(text) ==
    LET v == ScanReals(text, 1, 6)
    IN  {stress_t(xx, yy, zz, xy, xz, yz) :
            xx \in Scanned(v, 1), yy \in Scanned(v, 2), zz \in Scanned(v, 3),
            xy \in Scanned(v, 4), xz \in Scanned(v, 5), yz \in Scanned(v, 6)}

init_stress(objs, config, text) ==
    {Outcome([objs EXCEPT ![config].init_stress = stress], "none") :
        stress \in ScannedStress(text)}

run_stress(objs, config, text) ==
    {Outcome([objs EXCEPT ![config].run_stress = stress], "none") :
        stress \in ScannedStress(text)}

\* sscanf(line, "%d %lg %lg %lg", &tag, &xyz.x, &xyz.y, &xyz.z): the number
\* of conversions made and the values converted
sscanf_row(line) ==
    LET t == ScanInt(line, 1)
    IN  IF ~t.ok THEN [n |-> 0, tag |-> 0, vals |-> <<>>]
        ELSE LET v == ScanReals(line, t.pos, 3)
             IN  [n |-> 1 + Len(v), tag |-> t.val, vals |-> v]

OtherForces(field) ==
    IF field = "init_forces" THEN "run_forces" ELSE "init_forces"

\* config.<field>[tag] = xyz.  Inside the vector the entry is replaced.
\* Outside it the store is undefined: the process faults, or it goes on
\* with the value written to memory that holds none of the configuration,
\* or with it written over an entry of the object's other force vector,
\* whose buffer lies in the same heap.
StoreOutcomes(objs, config, field, tag, xyz) ==
    IF tag \in DOMAIN objs[config][field]
    THEN {Outcome([objs EXCEPT ![config][field][tag] = xyz], "none")}
    ELSE {Outcome(objs, "segv"), Outcome(objs, "none")}
         \cup {Outcome([objs EXCEPT ![config][OtherForces(field)][j] = xyz],
                       "none") :
                  j \in DOMAIN objs[config][OtherForces(field)]}

\* one pass of a forces decoder's getline loop, from the outcome out; tags
\* is what int tag holds when sscanf converts nothing ({0} where the code
\* initialises it)
RowOutcomes(out, config, field, line, tags) ==
    IF out.fault # "none" THEN {out}
    ELSE LET r == sscanf_row(line)
         IN  UNION {StoreOutcomes(out.objs, config, field, tag,
                                  coord_t(x, y, z)) :
                       tag \in (IF r.n >= 1 THEN {r.tag} ELSE tags),
                       x \in Scanned(r.vals, 1),
                       y \in Scanned(r.vals, 2),
                       z \in Scanned(r.vals, 3)}

RECURSIVE ForceRows(_, _, _, _, _, _)
ForceRows(outs, config, field, lines, i, tags) ==
    IF i > Len(lines) THEN outs
    ELSE ForceRows(UNION {RowOutcomes(out, config, field, lines[i], tags) :
                             out \in outs},
                   config, field, lines, i + 1, tags)

\* a forces decoder that sizes the vector with resize(natoms)
DecodeForcesResizeNatoms(objs, config, field, text, tags) ==
    LET n == objs[config].natoms
    IN  IF n < 0
        THEN {Outcome([objs EXCEPT ![config][field] = ZeroVector(0)],
                      "length_error")}
        ELSE ForceRows({Outcome([objs EXCEPT ![config][field] = ZeroVector(n)],
                                "none")},
                       config, field, Lines(text), 1, tags)

\* clear(), resize(natoms+1) and the getline loop of a forces decoder.
\* resize takes a size_t: natoms+1 < 0 is a huge size, and std::length_error
\* leaves the decoder with the vector cleared; nothing catches it.
DecodeForces(objs, config, field, text, tags) ==
    LET n == objs[config].natoms + 1
    IN  IF n < 0
        THEN {Outcome([objs EXCEPT ![config][field] = ZeroVector(0)],
                      "length_error")}
        ELSE ForceRows({Outcome([objs EXCEPT ![config][field] = ZeroVector(n)],
                                "none")},
                       config, field, Lines(text), 1, tags)

init_forces(objs, config, text) ==
    DecodeForces(objs, config, "init_forces", text, {0})

run_forces(objs, config, text) ==
    DecodeForces(objs, config, "run_forces", text, IndeterminateInts)

(***************************************************************************)
(* YamlReader: the registry of consumers and the event state machine.      *)
(***************************************************************************)
\* TestConfigReader::TestConfigReader: the keys of the consumers map
consumers ==
    {"lammps_version", "date_generated", "epsilon", "prerequisites",
     "pre_commands", "post_commands", "input_file", "bond_style",
     "bond_coeff", "natoms", "init_energy", "run_energy", "init_stress",
     "run_stress", "init_forces", "run_forces"}

\* (consumer->*(it->second))(event): the decoder registered under key k
Consume(k, objs, config, text) ==
    CASE k = "lammps_version" -> lammps_version(objs, config, text)
      [] k = "date_generated" -> date_generated(objs, config, text)
      [] k = "epsilon"        -> epsilon(objs, config, text)
      [] k = "prerequisites"  -> prerequisites(objs, config, text)
      [] k = "pre_commands"   -> pre_commands(objs, config, text)
      [] k = "post_commands"  -> post_commands(objs, config, text)
      [] k = "input_file"     -> input_file(objs, config, text)
      [] k = "bond_style"     -> bond_style(objs, config, text)
      [] k = "bond_coeff"     -> bond_coeff(objs, config, text)
      [] k = "natoms"         -> natoms(objs, config, text)
      [] k = "init_energy"    -> init_energy(objs, config, text)
      [] k = "run_energy"     -> run_energy(objs, config, text)
      [] k = "init_stress"    -> init_stress(objs, config, text)
      [] k = "run_stress"     -> run_stress(objs, config, text)
      [] k = "init_forces"    -> init_forces(objs, config, text)
      [] k = "run_forces"     -> run_forces(objs, config, text)

\* the text of a key scalar.  Keys are only compared with one another
\* (consumers.find(key)), so a key's text is written as one symbol, the
\* whole word.
KeyText(k) == <<k>>

\* a consume_key_value that calls through consumers.find(key) without
\* comparing it with consumers.end()
consume_key_value_unchecked(k, objs, config, text) ==
    IF k \in {KeyText(c) : c \in consumers}
    THEN {[objs |-> o.objs, fault |-> o.fault, found |-> TRUE] :
             o \in Consume(k[1], objs, config, text)}
    ELSE {[objs |-> objs, fault |-> "segv", found |-> FALSE]}

\* consume_key_value(key, event): the outcomes, each with the value returned
consume_key_value(k, objs, config, text) ==
    IF k \in {KeyText(c) : c \in consumers}
    THEN {[objs |-> o.objs, fault |-> o.fault, found |-> TRUE] :
             o \in Consume(k[1], objs, config, text)}
    ELSE {[objs |-> objs, fault |-> "none", found |-> FALSE]}

StateValue == {"START", "ACCEPT_KEY", "ACCEPT_VALUE", "STOP", "ERROR"}

\* yaml_event_type_t
EventTypes ==
    {"NO_EVENT", "STREAM_START", "STREAM_END", "DOCUMENT_START",
     "DOCUMENT_END", "ALIAS", "SCALAR", "SEQUENCE_START", "SEQUENCE_END",
     "MAPPING_START", "MAPPING_END"}

\* the default branches of ACCEPT_KEY and ACCEPT_VALUE print
\* event.data.scalar.value, a member the event does not have when it is no
\* scalar: for a sequence or mapping start those bytes hold the implicit
\* and style fields, for the other events zero.  Streaming that pointer
\* reads through it: the process faults, or prints and goes on.
PrintsScalarValue(st, event) ==
    st \in {"ACCEPT_KEY", "ACCEPT_VALUE"}
    /\ event.type \notin {"SCALAR"}
    /\ ~(st = "ACCEPT_KEY" /\ event.type = "MAPPING_END")

\* a consume_event whose START case does not list the document end among
\* the ignored events, so that it falls to the default branch
NextStateDocumentEndUnhandled(st, event) ==
    CASE st = "START" ->
           (CASE event.type = "MAPPING_START" -> "ACCEPT_KEY"
              [] event.type \in {"SCALAR", "SEQUENCE_START"} -> "ERROR"
              [] event.type = "STREAM_END" -> "STOP"
              [] event.type \in {"STREAM_START", "DOCUMENT_START"} -> "START"
              [] OTHER -> "ERROR")
      [] st = "ACCEPT_KEY" ->
           (CASE event.type = "SCALAR" -> "ACCEPT_VALUE"
              [] event.type = "MAPPING_END" -> "STOP"
              [] OTHER -> "ERROR")
      [] st = "ACCEPT_VALUE" ->
           (CASE event.type = "SCALAR" -> "ACCEPT_KEY"
              [] OTHER -> "ERROR")
      [] st \in {"ERROR", "STOP"} -> st

\* the state consume_event(event) moves to from state st
NextState(st, event) ==
    CASE st = "START" ->
           (CASE event.type = "MAPPING_START" -> "ACCEPT_KEY"
              [] event.type \in {"SCALAR", "SEQUENCE_START"} -> "ERROR"
              [] event.type = "STREAM_END" -> "STOP"
              [] event.type \in {"STREAM_START", "DOCUMENT_START",
                                 "DOCUMENT_END"} -> "START"
              [] OTHER -> "ERROR")
      [] st = "ACCEPT_KEY" ->
           (CASE event.type = "SCALAR" -> "ACCEPT_VALUE"
              [] event.type = "MAPPING_END" -> "STOP"
              [] OTHER -> "ERROR")
      [] st = "ACCEPT_VALUE" ->
           (CASE event.type = "SCALAR" -> "ACCEPT_KEY"
              [] OTHER -> "ERROR")
      [] st \in {"ERROR", "STOP"} -> st

\* consume_event(event) in state st with pending key k: the outcomes, each
\* with the state and key it leaves, the accepted flag it sets, the value
\* it returns and the fault that ended it ("none": it returned)
consume_event(st, k, event) ==
    {[state    |-> NextState(st, event),
      key      |-> IF st = "ACCEPT_KEY" /\ event.type = "SCALAR"
                   THEN event.value ELSE k,
      accepted |-> st = "ACCEPT_VALUE" /\ event.type = "SCALAR",
      result   |-> NextState(st, event) # "ERROR",
      fault    |-> "none"]}
    \cup (IF PrintsScalarValue(st, event)
          THEN {[state |-> st, key |-> k, accepted |-> FALSE,
                 result |-> FALSE, fault |-> "segv"]}
          ELSE {})

(***************************************************************************)
(* The fixture files of the model: the scalar texts a file gives each key. *)
(***************************************************************************)
DigitChar(d) ==
    CASE d = 0 -> "0" [] d = 1 -> "1" [] d = 2 -> "2" [] d = 3 -> "3"
      [] d = 4 -> "4" [] d = 5 -> "5" [] d = 6 -> "6" [] d = 7 -> "7"
      [] d = 8 -> "8" [] d = 9 -> "9"

RECURSIVE FormatNat(_)
FormatNat(n) ==
    IF n < 10 THEN <<DigitChar(n)>>
    ELSE FormatNat(n \div 10) \o <<DigitChar(n % 10)>>

\* snprintf(buf, 256, "%d", value)
FormatInt(n) == IF n < 0 THEN <<"-">> \o FormatNat(-n) ELSE FormatNat(n)

\* the force the model's fixtures give atom id: (3id-2, 3id-1, 3id)
ForceOf(id) == coord_t(Real(3 * id - 2), Real(3 * id - 1), Real(3 * id))

\* a fixture row "id fx.0 fy.0 fz.0\n", as in "2 4.0 5.0 6.0\n"
ForceRow(id) ==
    FormatInt(id) \o <<" ">> \o FormatInt(3 * id - 2) \o <<".", "0", " ">>
        \o FormatInt(3 * id - 1) \o <<".", "0", " ">>
        \o FormatInt(3 * id) \o <<".", "0", "\n">>

\* the rows of atoms from..to, ascending or (from > to) descending
RECURSIVE ForceBlock(_, _)
ForceBlock(from, to) ==
    IF from = to THEN ForceRow(from)
    ELSE ForceRow(from) \o ForceBlock(IF from < to THEN from + 1
                                      ELSE from - 1, to)

ForcesTexts ==
    {ForceBlock(1, n) : n \in 1 .. MaxAtoms}
    \cup {ForceBlock(MaxAtoms, 1),
          ForceRow(MaxAtoms + 1),
          <<"\n">>,
          <<"1", " ", "4", ".", "0", "\n">>}

StressTexts ==
    {<<"1", " ", "2", " ", "3", " ", "-", "4", " ", "5", " ", "6">>,
     <<"1", " ", "2", " ", "3", " ", "4", " ", "5">>}

EnergyTexts == {<<"-", "3", ".", "5">>, <<"x">>}

EpsilonTexts ==
    {<<"2", "e", "-", "9">>, <<"0">>, <<"-", "1">>, <<"x">>}

NatomsTexts ==
    {FormatInt(n) : n \in 1 .. MaxAtoms} \cup {<<"-", "2">>, <<"x">>}

\* a key no consumer is registered for
UnknownKey == "extra"

Keys == consumers \cup {UnknownKey}

\* the texts the model's files give key k
ValueTexts(k) ==
    CASE k = "epsilon" -> EpsilonTexts
      [] k = "natoms" -> NatomsTexts
      [] k \in {"init_forces", "run_forces"} -> ForcesTexts
      [] k \in {"init_stress", "run_stress"} -> StressTexts
      [] k \in {"init_energy", "run_energy"} -> EnergyTexts
      [] k = "prerequisites" ->
           {<<"b", " ", "h", "\n", "a", " ", "f", "\n">>, <<"b", "\n">>,
            <<"b", " ", "h", " ", "x", "\n">>}
      [] k = "post_commands" -> {<<"p", "\n", "q", "\n">>}
      [] k \in {"pre_commands", "bond_coeff"} -> {<<"c", " ", "1", "\n">>}
      [] OTHER -> {<<"v">>}

(***************************************************************************)
(* yaml_parser_parse: the events libyaml delivers for a file, up to the    *)
(* first nested node.  at is where the parser stands in the file, k the    *)
(* key scalar it delivered last, pairs the key/value scalar pairs it has   *)
(* delivered.  Every call may also fail (a syntax error), leaving the      *)
(* event zeroed.                                                           *)
(***************************************************************************)
Event(type, value) == [type |-> type, value |-> value]

Parsed(event, at, k, pairs, known) ==
    [ok |-> TRUE, event |-> event,
     ypos |-> [at |-> at, k |-> k, pairs |-> pairs, known |-> known]]

NestedNodes ==
    {Event("MAPPING_START", <<>>), Event("SEQUENCE_START", <<>>),
     Event("ALIAS", <<>>)}

yaml_parser_parse(y) ==
    {[ok |-> FALSE, event |-> Event("NO_EVENT", <<>>),
      ypos |-> [y EXCEPT !.at = "end"]]}
    \cup
    CASE y.at = "stream" ->
           {Parsed(Event("STREAM_START", <<>>), "document", y.k, y.pairs,
                   y.known)}
      [] y.at = "document" ->
           {Parsed(Event("DOCUMENT_START", <<>>), "root", y.k, y.pairs,
                   y.known),
            Parsed(Event("STREAM_END", <<>>), "end", y.k, y.pairs, y.known)}
      [] y.at = "root" ->
           {Parsed(Event("MAPPING_START", <<>>), "key", y.k, y.pairs,
                   y.known),
            Parsed(Event("SCALAR", <<"v">>), "end", y.k, y.pairs, y.known)}
           \cup {Parsed(e, "end", y.k, y.pairs, y.known) :
                    e \in NestedNodes \ {Event("MAPPING_START", <<>>)}}
      [] y.at = "key" ->
           {Parsed(Event("SCALAR", KeyText(k)), "value", k, y.pairs,
                   y.known) :
               k \in IF y.pairs < MaxPairs THEN Keys ELSE {}}
           \cup {Parsed(Event("MAPPING_END", <<>>), "end", y.k, y.pairs,
                        y.known)}
           \cup {Parsed(e, "end", y.k, y.pairs, y.known) : e \in NestedNodes}
      [] y.at = "value" ->
           {Parsed(Event("SCALAR", v), "key", y.k, y.pairs + 1,
                   IF y.k \in consumers THEN y.known + 1 ELSE y.known) :
               v \in ValueTexts(y.k)}
           \cup {Parsed(e, "end", y.k, y.pairs, y.known) : e \in NestedNodes}
      [] OTHER -> {}

\* an event source bound by no grammar: every event type in every state of
\* the reader st (a scalar carries a key where the reader awaits one, a
\* text for the pending key k where it awaits a value)
AnyEvent(y, st, k) ==
    {Parsed(Event(type, <<>>), y.at, y.k, y.pairs, y.known) :
        type \in EventTypes \ {"SCALAR", "NO_EVENT"}}
    \cup
    CASE st = "ACCEPT_KEY" ->
           {Parsed(Event("SCALAR", KeyText(c)), y.at, c, y.pairs, y.known) :
               c \in IF y.pairs < MaxPairs THEN Keys ELSE {}}
      [] st = "ACCEPT_VALUE" ->
           {Parsed(Event("SCALAR", v), y.at, y.k, y.pairs + 1,
                   IF y.k \in consumers THEN y.known + 1 ELSE y.known) :
               v \in ValueTexts(y.k)}
      [] OTHER -> {Parsed(Event("SCALAR", <<"v">>), y.at, y.k, y.pairs,
                          y.known)}

(***************************************************************************)
(* Arithmetic on double values.  A value is n/d * 10^e, exact: n and d     *)
(* coprime, d > 0 and coprime to 10, n no multiple of 10; zero is 0/1.    *)
(* Rounding is left out: the model's numbers are the real numbers the      *)
(* doubles stand for.                                                      *)
(***************************************************************************)
Abs(n) == IF n < 0 THEN -n ELSE n

RECURSIVE GCD(_, _)
GCD(a, b) == IF b = 0 THEN a ELSE GCD(b, a % b)

RECURSIVE QStrip10(_, _, _)
QStrip10(n, d, e) ==
    IF n % 10 = 0 THEN QStrip10(n \div 10, d, e + 1)
    ELSE [n |-> n, d |-> d, e |-> e]

RECURSIVE QStrip5(_, _, _)
QStrip5(n, d, e) ==
    IF d % 5 = 0 THEN QStrip5(n * 2, d \div 5, e - 1) ELSE QStrip10(n, d, e)

RECURSIVE QStrip2(_, _, _)
QStrip2(n, d, e) ==
    IF d % 2 = 0 THEN QStrip2(n * 5, d \div 2, e - 1) ELSE QStrip5(n, d, e)

QReduce(n, d, e, g) == QStrip2(n \div g, d \div g, e)

\* the value n/d * 10^e, d > 0
QNorm(n, d, e) ==
    IF n = 0 THEN [n |-> 0, d |-> 1, e |-> 0]
    ELSE QReduce(n, d, e, GCD(Abs(n), d))

\* the double a decimal [m, e] of the configuration stands for
Q(x) == QNorm(x.m, 1, x.e)

QZero == QNorm(0, 1, 0)

QNeg(a) == [a EXCEPT !.n = -a.n]

QAlign(a, b, e) ==
    QNorm(a.n * b.d * Pow10(a.e - e) + b.n * a.d * Pow10(b.e - e),
          a.d * b.d, e)

QAdd(a, b) ==
    IF a.n = 0 THEN b
    ELSE IF b.n = 0 THEN a
    ELSE QAlign(a, b, IF a.e < b.e THEN a.e ELSE b.e)

QSub(a, b) == QAdd(a, QNeg(b))

QMul(a, b) == QNorm(a.n * b.n, a.d * b.d, a.e + b.e)

\* a / b, b nonzero
QDiv(a, b) ==
    QNorm(IF b.n < 0 THEN -(a.n * b.d) ELSE a.n * b.d,
          a.d * Abs(b.n), a.e - b.e)

\* a < b.  Where the two differ in sign the signs decide, and so they do
\* where the exponents lie ten or more apart: n/d is between 1/4 and 2^31
\* in every value the model computes.
QLess(a, b) ==
    IF a.n = 0 THEN b.n > 0
    ELSE IF b.n = 0 THEN a.n < 0
    ELSE IF (a.n < 0) # (b.n < 0) THEN a.n < 0
    ELSE IF a.e - b.e >= 10 THEN a.n < 0
    ELSE IF b.e - a.e >= 10 THEN b.n > 0
    ELSE QSub(a, b).n < 0

fabs(a) == [a EXCEPT !.n = Abs(a.n)]

\* a std::min that yields its first argument
minFirst(a, b) == a

\* std::min(a, b)
min(a, b) == IF QLess(b, a) THEN b ELSE a

(***************************************************************************)
(* ErrorStats and EXPECT_FP_LE_WITH_EPS.                                   *)
(***************************************************************************)
\* ErrorStats::reset
reset ==
    [num |-> 0, maxidx |-> -1, sum |-> QZero, sumsq |-> QZero,
     maxerr |-> QZero]

\* an add that takes val as the new maximum already when it equals maxerr
addOnEqual(st, val) ==
    [num    |-> st.num + 1,
     maxidx |-> IF ~QLess(val, st.maxerr) THEN st.num + 1 ELSE st.maxidx,
     maxerr |-> IF ~QLess(val, st.maxerr) THEN val ELSE st.maxerr,
     sum    |-> QAdd(st.sum, val),
     sumsq  |-> QAdd(st.sumsq, QMul(val, val))]

\* ErrorStats::add
add(st, val) ==
    [num    |-> st.num + 1,
     maxidx |-> IF QLess(st.maxerr, val) THEN st.num + 1 ELSE st.maxidx,
     maxerr |-> IF QLess(st.maxerr, val) THEN val ELSE st.maxerr,
     sum    |-> QAdd(st.sum, val),
     sumsq  |-> QAdd(st.sumsq, QMul(val, val))]

\* ErrorStats::max
max(st) == st.maxerr

\* ErrorStats::idx
idx(st) == st.maxidx

\* an expectation of err < eps
DoubleLT(err, eps) == QLess(err, eps)

\* ::testing::DoubleLE(err, eps): err <= eps, or the two almost equal
\* (within 4 units in the last place, which for the exact values of the
\* model is equality)
DoubleLE(err, eps) == ~QLess(eps, err)

\* an err that is the absolute difference whatever div is
AbsoluteError(diff, div) == diff

\* const double err = (div == 0.0) ? diff : diff/div
RelativeError(diff, div) == IF div = QZero THEN diff ELSE QDiv(diff, div)

\* the err EXPECT_FP_LE_WITH_EPS(val1, val2, eps) computes
Err(val1, val2) ==
    RelativeError(fabs(QSub(val1, val2)), min(fabs(val1), fabs(val2)))

\* EXPECT_FP_LE_WITH_EPS(val1, val2, eps) on the ErrorStats st: the stats
\* after stats.add(err), and what the expectation reports
EXPECT_FP_LE_WITH_EPS(st, val1, val2, eps) ==
    [stats |-> add(st, Err(val1, val2)),
     val1  |-> val1,
     val2  |-> val2,
     eps   |-> eps,
     err   |-> Err(val1, val2),
     pass  |-> DoubleLE(Err(val1, val2), eps)]

\* what cmp keeps of the comparison r: its values, and num, the position
\* of its error among the values the ErrorStats was given
Compared(r) ==
    [val1 |-> r.val1, val2 |-> r.val2, eps |-> r.eps, err |-> r.err,
     pass |-> r.pass, num |-> r.stats.num]

\* cmp while the ErrorStats has been given no comparison since its reset
NoCompare ==
    [val1 |-> QZero, val2 |-> QZero, eps |-> QZero, err |-> QZero,
     pass |-> TRUE, num |-> 0]

\* test while no TEST runs: todo are the tests RUN_ALL_TESTS has yet to
\* run, failed whether an expectation or assertion has failed
NoTest ==
    [name |-> "none", todo |-> <<"plain", "omp", "intel">>,
     failed |-> FALSE, anyFailed |-> FALSE, ip |-> 0, epsilon |-> QZero]

\* lmp while there is no LAMMPS instance.  Of an instance the tests read
\* atom->natoms, atom->nlocal and atom->tag (tag[i], i from 0, the id of
\* the i-th local atom); ran is whether run_lammps has advanced it
NoEngine ==
    [exists |-> FALSE, natoms |-> 0, nlocal |-> 0, tag |-> <<>>,
     ran |-> FALSE]

(***************************************************************************)
(* The body of a TEST, as the list of its statements in source order.      *)
(* The loops over the local atoms are unrolled: nlocal is fixed once the   *)
(* instance exists.  A compare statement is the k-th comparison (from 0)   *)
(* of its group, under the tolerance factor * epsilon.                     *)
(***************************************************************************)
Stmt(op) == [op |-> op, group |-> "", k |-> 0, factor |-> 1]

Compare(group, k, factor) ==
    [op |-> "compare", group |-> group, k |-> k, factor |-> factor]

\* the comparisons from..n-1 of a group
RECURSIVE Compares(_, _, _, _)
Compares(group, from, n, factor) ==
    IF from >= n THEN <<>>
    ELSE <<Compare(group, from, factor)>>
         \o Compares(group, from + 1, n, factor)

\* a group that goes on with the ErrorStats as the group before left it
GroupNoReset(group, n, factor) ==
    Compares(group, 0, n, factor)
        \o <<[Stmt("print") EXCEPT !.group = group]>>

\* stats.reset(); the group's comparisons; if (print_stats) ...
Group(group, n, factor) ==
    <<Stmt("reset")>> \o Compares(group, 0, n, factor)
        \o <<[Stmt("print") EXCEPT !.group = group]>>

AssertSize(group) == [Stmt("assert_size") EXCEPT !.group = group]

\* the factor of the stress tolerance: epsilon in plain, 10*epsilon in omp
\* and intel
StressFactor(name) == IF name = "plain" THEN 1 ELSE 10

\* TEST(BondStyle, name)
Body(name, nlocal) ==
    (IF name = "plain" THEN <<>> ELSE <<Stmt("is_installed_pkg")>>)
    \o <<Stmt("init_lammps")>>
    \o (IF name = "intel" THEN <<Stmt("epsilon")>> ELSE <<>>)
    \o <<Stmt("expect_output"), Stmt("assert_nlocal")>>
    \o (IF name # "intel" THEN <<Stmt("epsilon")>> ELSE <<>>)
    \o (IF name = "plain"
        THEN <<Stmt("reset"), AssertSize("init_forces")>>
             \o Compares("init_forces", 0, 3 * nlocal, 1)
             \o <<[Stmt("print") EXCEPT !.group = "init_forces"]>>
        ELSE Group("init_forces", 3 * nlocal, 1))
    \o Group("init_stress", 6, StressFactor(name))
    \o Group("init_energy", 1, 1)
    \o <<Stmt("run_lammps"), AssertSize("run_forces")>>
    \o Group("run_forces", 3 * nlocal, 10)
    \o Group("run_stress", 6, StressFactor(name))
    \o Group("run_energy", 2, 1)
    \o <<Stmt("delete")>>

\* an ASSERT_EQ and an EXPECT_PRED_FORMAT2 with the other's control flow
EXPECT_EQ(holds, ip, n) == ip + 1

ASSERT_PRED_FORMAT2(holds, ip, n) == IF holds THEN ip + 1 ELSE n + 1

\* control after a statement at ip of a body of n statements:
\* EXPECT_* goes on whatever the outcome, ASSERT_* returns from the test
\* on failure (n + 1: past the end)
ASSERT_EQ(holds, ip, n) == IF holds THEN ip + 1 ELSE n + 1

EXPECT_PRED_FORMAT2(holds, ip, n) == ip + 1

\* s.find(sub): the first position (from 0) where sub occurs in s from pos
\* on, or npos
RECURSIVE find(_, _, _)
find(s, sub, pos) ==
    IF pos + Len(sub) > Len(s) THEN npos
    ELSE IF SubSeq(s, pos + 1, pos + Len(sub)) = sub THEN pos
    ELSE find(s, sub, pos + 1)

BondModifyTable ==
    <<"b", "o", "n", "d", "_", "m", "o", "d", "i", "f", "y", " ",
      "t", "a", "b", "l", "e">>

BondModifyTable0 ==
    <<"b", "o", "n", "d", "_", "m", "o", "d", "i", "f", "y", " ",
      "t", "a", "b", "l", "e", " ", "0">>

\* the loop of TEST(BondStyle, intel) over post_commands from the i-th on,
\* epsilon being the tolerance so far
RECURSIVE RelaxEpsilon(_, _, _)
RelaxEpsilon(eps, cmds, i) ==
    IF i > Len(cmds) THEN eps
    ELSE RelaxEpsilon(IF find(cmds[i], BondModifyTable, 0) # npos
                         /\ find(cmds[i], BondModifyTable0, 0) = npos
                      THEN QMul(eps, Q(Real(1000000))) ELSE eps,
                      cmds, i + 1)

\* double epsilon of TEST(BondStyle, name) for the configuration cfg
Epsilon(name, cfg) ==
    CASE name = "plain" -> Q(cfg.epsilon)
      [] name = "omp" -> QMul(Q(Real(5)), Q(cfg.epsilon))
      [] name = "intel" ->
           RelaxEpsilon(QMul(Q(Real(5)), Q(cfg.epsilon)),
                        cfg.post_commands, 1)


(***************************************************************************)
(* The program state.                                                      *)
(***************************************************************************)
VARIABLES
    pc,         \* where main stands
    argc,       \* main's argument count
    objs,       \* the TestConfig objects: name -> value
    state,      \* YamlReader::state
    accepted,   \* YamlReader::accepted
    key,        \* YamlReader::key
    status,     \* the value parse_file returned
    exitcode,   \* the value main returned
    fault,      \* what ended the process abnormally, or "none"
    ypos,       \* where libyaml's parser stands in the file
    last,       \* history: the latest pass of parse_file's loop
    nDispatch,  \* history: calls of consume_key_value
    nDecoded,   \* history: decoders run
    stats,      \* the ErrorStats object of the running test
    samples,    \* history: the values added to stats since its last reset,
                \* kept where ErrorStats is driven on its own
    cmp,        \* history: the latest EXPECT_FP_LE_WITH_EPS
    test,       \* the running TEST: its locals and where it stands
    lmp,        \* the LAMMPS instance of the running test
    log,        \* history: the steps of the running test or generate
    argv,       \* argv[2] and argv[3] as main has read them
    print_stats,\* the global print_stats
    disk,       \* the fixture file read or written: its key/value pairs
    io          \* the FILE handle of the reader or writer

\* what the tests work on
tvars == <<stats, samples, cmp, test, lmp, log>>

\* what the reader and main work on
rvars == <<argc, state, accepted, key, status, exitcode, ypos, last,
           nDispatch, nDecoded>>

\* what main's dispatch and the file handles work on
xvars == <<argv, print_stats, disk, io>>

vars == <<pc, argc, objs, state, accepted, key, status, exitcode, fault,
          ypos, last, nDispatch, nDecoded, stats, samples, cmp, test, lmp,
          log, argv, print_stats, disk, io>>

\* argv[2], argv[3] before main has read them
NoArgs == [opt |-> "", arg |-> ""]

\* the command lines of four arguments: argv[2] and argv[3]
Options ==
    {[opt |-> "--gen", arg |-> "out.yaml"],
     [opt |-> "--stats", arg |-> "yes"],
     [opt |-> "--stats", arg |-> "no"],
     [opt |-> "--gem", arg |-> "yes"]}

\* a FILE handle: fp is "none" before fopen, "null" where fopen failed,
\* "open", "closed"; opens and closes count fopen's successes and the
\* fclose calls, misuse the emits and closes on a handle that is not open
NoFile == [fp |-> "none", opens |-> 0, closes |-> 0, misuse |-> 0]

fopen(h, ok) ==
    IF ok THEN [h EXCEPT !.fp = "open", !.opens = @ + 1]
    ELSE [h EXCEPT !.fp = "null"]

fclose(h) ==
    [h EXCEPT !.fp = IF @ = "open" THEN "closed" ELSE @,
              !.closes = @ + 1,
              !.misuse = IF h.fp = "open" THEN @ ELSE @ + 1]

\* the object main constructs the reader on: TestConfigReader(test_config)
config == "test_config"

\* last before the first pass of the loop
NoPass ==
    [from |-> "none", ok |-> TRUE, event |-> Event("NO_EVENT", <<>>),
     to |-> "none", pair |-> <<>>]

\* the process at the entry of main: the global test_config constructed,
\* the reader's state and accepted members not yet set
Init ==
    /\ pc = "main"
    /\ argc \in 1 .. 4
    /\ objs = [o \in {"test_config"} |-> TestConfig]
    /\ state \in StateValue
    /\ accepted \in BOOLEAN
    /\ key = <<>>
    /\ status = 0
    /\ exitcode = -1
    /\ fault = "none"
    /\ ypos = [at |-> "stream", k |-> "", pairs |-> 0, known |-> 0]
    /\ last = NoPass
    /\ nDispatch = 0
    /\ nDecoded = 0
    /\ stats = reset
    /\ samples = <<>>
    /\ cmp = NoCompare
    /\ test = NoTest
    /\ lmp = NoEngine
    /\ log = <<>>
    /\ argv = NoArgs
    /\ print_stats = FALSE
    /\ disk = <<>>
    /\ io = NoFile

\* main: the argument count is neither 2 nor 4
MainUsage ==
    /\ pc = "main"
    /\ (argc # 2) /\ (argc # 4)
    /\ pc' = "exit"
    /\ exitcode' = 1
    /\ UNCHANGED tvars
    /\ UNCHANGED xvars
    /\ UNCHANGED <<argc, objs, state, accepted, key, status, fault, ypos,
                   last, nDispatch, nDecoded>>

\* parse_file: fopen fails, parse_file returns 1
ParseOpenFail ==
    /\ pc = "main"
    /\ ~((argc # 2) /\ (argc # 4))
    /\ pc' = "returned"
    /\ status' = 1
    /\ io' = fopen(io, FALSE)
    /\ UNCHANGED tvars
    /\ UNCHANGED <<argv, print_stats, disk>>
    /\ UNCHANGED <<argc, objs, state, accepted, key, exitcode, fault, ypos,
                   last, nDispatch, nDecoded>>

\* parse_file: the file is open, the parser set up, state = START
ParseOpen ==
    /\ pc = "main"
    /\ ~((argc # 2) /\ (argc # 4))
    /\ pc' = "parse"
    /\ state' = "START"
    /\ io' = fopen(io, TRUE)
    /\ UNCHANGED tvars
    /\ UNCHANGED <<argv, print_stats, disk>>
    /\ UNCHANGED <<argc, objs, accepted, key, status, exitcode, fault, ypos,
                   last, nDispatch, nDecoded>>

\* one pass of parse_file's do-while loop on the result p of
\* yaml_parser_parse: a failed call sets STOP, consume_event runs, its
\* FALSE sets STOP, and an accepted pair goes to consume_key_value
ParsePass(p) ==
    \E ce \in consume_event(IF p.ok THEN state ELSE "STOP", key, p.event) :
       /\ key' = ce.key
       /\ accepted' = ce.accepted
       /\ IF ce.fault # "none"
          THEN /\ state' = ce.state
               /\ fault' = ce.fault
               /\ pc' = "dead"
               /\ last' = [from |-> state, ok |-> p.ok, event |-> p.event,
                           to |-> ce.state, pair |-> <<>>]
               /\ UNCHANGED <<objs, nDispatch, nDecoded>>
          ELSE /\ state' = IF ce.result THEN ce.state ELSE "STOP"
               /\ IF ce.accepted
                  THEN /\ \E o \in consume_key_value(ce.key, objs, config,
                                                     p.event.value) :
                            /\ objs' = o.objs
                            /\ fault' = o.fault
                            /\ pc' = IF o.fault = "none" THEN "parse"
                                     ELSE "dead"
                            /\ nDecoded' = IF o.found THEN nDecoded + 1
                                           ELSE nDecoded
                       /\ nDispatch' = nDispatch + 1
                       /\ last' = [from |-> state, ok |-> p.ok,
                                   event |-> p.event, to |-> ce.state,
                                   pair |-> <<ce.key, p.event.value>>]
                  ELSE /\ last' = [from |-> state, ok |-> p.ok,
                                   event |-> p.event, to |-> ce.state,
                                   pair |-> <<>>]
                       /\ UNCHANGED <<objs, fault, pc, nDispatch, nDecoded>>

\* parse_file's loop, fed by libyaml
ParseStep ==
    /\ pc = "parse"
    /\ state # "STOP"
    /\ \E p \in yaml_parser_parse(ypos) :
          /\ ParsePass(p)
          /\ ypos' = p.ypos
    /\ UNCHANGED tvars
    /\ UNCHANGED xvars
    /\ UNCHANGED <<argc, status, exitcode>>

\* parse_file's loop, fed every event type
ParseStepAny ==
    /\ pc = "parse"
    /\ state # "STOP"
    /\ \E p \in AnyEvent(ypos, state, key) :
          /\ ParsePass(p)
          /\ ypos' = p.ypos
    /\ UNCHANGED tvars
    /\ UNCHANGED xvars
    /\ UNCHANGED <<argc, status, exitcode>>

\* parse_file: the loop has ended; parser deleted, file closed, return 0
ParseReturn ==
    /\ pc = "parse"
    /\ state = "STOP"
    /\ pc' = "returned"
    /\ status' = 0
    /\ io' = fclose(io)
    /\ UNCHANGED tvars
    /\ UNCHANGED <<argv, print_stats, disk>>
    /\ UNCHANGED <<argc, objs, state, accepted, key, exitcode, fault, ypos,
                   last, nDispatch, nDecoded>>

\* main: parse_file returned nonzero
MainParseError ==
    /\ pc = "returned"
    /\ status # 0
    /\ pc' = "exit"
    /\ exitcode' = 2
    /\ UNCHANGED tvars
    /\ UNCHANGED xvars
    /\ UNCHANGED <<argc, objs, state, accepted, key, status, fault, ypos,
                   last, nDispatch, nDecoded>>

\* a dispatch that takes every option for --stats
DispatchAllStats(n, a) ==
    IF n = 4
    THEN [pc |-> "tests", exit |-> FALSE, stats |-> a.arg = "yes"]
    ELSE [pc |-> "tests", exit |-> FALSE, stats |-> FALSE]

\* main after the parse, with n arguments and the option a: where it goes
\* on, whether it returns 1 at once, and whether it sets print_stats
Dispatch(n, a) ==
    IF n = 4
    THEN CASE a.opt = "--gen" ->
                [pc |-> "generate", exit |-> FALSE, stats |-> FALSE]
           [] a.opt = "--stats" ->
                [pc |-> "tests", exit |-> FALSE, stats |-> a.arg = "yes"]
           [] OTHER -> [pc |-> "exit", exit |-> TRUE, stats |-> FALSE]
    ELSE [pc |-> "tests", exit |-> FALSE, stats |-> FALSE]

\* main: parse_file returned 0; with four arguments argv[2] selects
\* generate (--gen), the tests (--stats) or the usage error, with two the
\* tests run
MainDispatch ==
    /\ pc = "returned"
    /\ status = 0
    /\ argv' \in IF argc = 4 THEN Options ELSE {argv}
    /\ pc' = Dispatch(argc, argv').pc
    /\ exitcode' = IF Dispatch(argc, argv').exit THEN 1 ELSE exitcode
    /\ print_stats' = (print_stats \/ Dispatch(argc, argv').stats)
    /\ UNCHANGED tvars
    /\ UNCHANGED <<disk, io>>
    /\ UNCHANGED <<argc, objs, state, accepted, key, status, fault, ypos,
                   last, nDispatch, nDecoded>>

Next ==
    \/ MainUsage
    \/ ParseOpenFail
    \/ ParseOpen
    \/ ParseStep
    \/ ParseReturn
    \/ MainParseError
    \/ MainDispatch

Spec == Init /\ [][Next]_vars

\* the same program where a step that can be taken is taken: parse_file's
\* loop and main run on, nothing suspends them
SpecFair == Init /\ [][Next]_vars /\ WF_vars(Next)

\* the same program with consume_event driven by every event type
NextAnyEvent ==
    \/ MainUsage
    \/ ParseOpenFail
    \/ ParseOpen
    \/ ParseStepAny
    \/ ParseReturn
    \/ MainParseError
    \/ MainDispatch

SpecAnyEvent == Init /\ [][NextAnyEvent]_vars

(***************************************************************************)
(* ErrorStats and EXPECT_FP_LE_WITH_EPS on their own: an ErrorStats        *)
(* object is reset, given values, and given the errors of comparisons of   *)
(* any two doubles under any tolerance.                                    *)
(***************************************************************************)
\* the doubles compared
CompareValues == {Q(Real(0)), Q(Real(1)), Q(Real(-2)), Q(Real(3))}

\* the tolerances
Tolerances == {Q(Real(0)), Q(Real(3)), Q(Real(-1))}

\* the values given to add directly
SampleValues == {Q(Real(0)), Q(Norm(5, -1)), Q(Real(2))}

InitStats ==
    /\ pc = "stats"
    /\ argc = 2
    /\ objs = [o \in {"test_config"} |-> TestConfig]
    /\ state = "STOP"
    /\ accepted = FALSE
    /\ key = <<>>
    /\ status = 0
    /\ exitcode = -1
    /\ fault = "none"
    /\ ypos = [at |-> "end", k |-> "", pairs |-> 0, known |-> 0]
    /\ last = NoPass
    /\ nDispatch = 0
    /\ nDecoded = 0
    /\ stats = reset
    /\ samples = <<>>
    /\ cmp = NoCompare
    /\ test = NoTest
    /\ lmp = NoEngine
    /\ log = <<>>
    /\ argv = NoArgs
    /\ print_stats = FALSE
    /\ disk = <<>>
    /\ io = NoFile


\* stats.reset()
StatsReset ==
    /\ pc = "stats"
    /\ stats' = reset
    /\ samples' = <<>>
    /\ cmp' = NoCompare
    /\ UNCHANGED <<pc, objs, fault, test, lmp, log>>
    /\ UNCHANGED rvars
    /\ UNCHANGED xvars

\* stats.add(val)
StatsAdd ==
    /\ pc = "stats"
    /\ Len(samples) < MaxSamples
    /\ \E val \in SampleValues :
          /\ stats' = add(stats, val)
          /\ samples' = Append(samples, val)
    /\ UNCHANGED <<pc, objs, fault, cmp, test, lmp, log>>
    /\ UNCHANGED rvars
    /\ UNCHANGED xvars

\* EXPECT_FP_LE_WITH_EPS(val1, val2, eps)
StatsCompare ==
    /\ pc = "stats"
    /\ Len(samples) < MaxSamples
    /\ \E val1 \in CompareValues, val2 \in CompareValues, eps \in Tolerances :
          /\ stats' = EXPECT_FP_LE_WITH_EPS(stats, val1, val2, eps).stats
          /\ cmp' = Compared(EXPECT_FP_LE_WITH_EPS(stats, val1, val2, eps))
          /\ samples' = Append(samples, cmp'.err)
    /\ UNCHANGED <<pc, objs, fault, test, lmp, log>>
    /\ UNCHANGED rvars
    /\ UNCHANGED xvars

NextStats ==
    \/ StatsReset
    \/ StatsAdd
    \/ StatsCompare

SpecStats == InitStats /\ [][NextStats]_vars

(***************************************************************************)
(* RUN_ALL_TESTS: TEST(BondStyle, plain), TEST(BondStyle, omp) and         *)
(* TEST(BondStyle, intel), in this order, on the test_config main has      *)
(* read.  The configurations are the ones the decoders produce from the    *)
(* fixture files below.                                                    *)
(***************************************************************************)
Table16 ==
    <<"b", "o", "n", "d", "_", "m", "o", "d", "i", "f", "y", " ",
     "t", "a", "b", "l", "e", " ", "1", "6", "\n">>

Table0Then16Then8 ==
    <<"b", "o", "n", "d", "_", "m", "o", "d", "i", "f", "y", " ",
     "t", "a", "b", "l", "e", " ", "0", "\n", "b", "o", "n",
     "d", "_", "m", "o", "d", "i", "f", "y", " ", "t", "a",
     "b", "l", "e", " ", "1", "6", "\n", "b", "o", "n", "d",
     "_", "m", "o", "d", "i", "f", "y", " ", "t", "a", "b",
     "l", "e", " ", "8", "\n">>

Table0 ==
    <<"b", "o", "n", "d", "_", "m", "o", "d", "i", "f", "y", " ",
     "t", "a", "b", "l", "e", " ", "0", "\n">>

WellFormedStress ==
    <<"1", " ", "2", " ", "3", " ", "-", "4", " ", "5", " ", "6">>

\* the pairs every fixture file has
CommonPairs ==
    <<<<"lammps_version", <<"1">>>>,
      <<"date_generated", <<"d">>>>,
      <<"prerequisites",
        <<"b", "o", "n", "d", " ", "h", "\n", "a", "t", "o", "m", " ", "f",
          "\n">>>>,
      <<"pre_commands", <<"c", " ", "1", "\n">>>>,
      <<"input_file", <<"v">>>>,
      <<"bond_style", <<"h">>>>,
      <<"bond_coeff", <<"c", " ", "1", "\n", "c", " ", "2", "\n">>>>,
      <<"epsilon", <<"2", "e", "-", "9">>>>,
      <<"init_stress", WellFormedStress>>,
      <<"run_stress", WellFormedStress>>,
      <<"init_energy", <<"-", "3", ".", "5">>>>,
      <<"run_energy", <<"-", "3", ".", "5">>>>>>

\* a fixture file of n atoms with both force blocks
ForcesFixture(n, post) ==
    <<<<"natoms", FormatInt(n)>>,
      <<"init_forces", ForceBlock(1, n)>>,
      <<"run_forces", ForceBlock(n, 1)>>>>
    \o post \o CommonPairs

\* the fixture files, as the key/value pairs of each
TestFixtures ==
    {ForcesFixture(MaxAtoms, <<>>),
     ForcesFixture(1, <<<<"post_commands", Table16>>>>),
     ForcesFixture(1, <<<<"post_commands", Table0Then16Then8>>>>),
     <<<<"natoms", <<"1">>>>, <<"post_commands", Table0>>>> \o CommonPairs}

\* the objects the decoders leave after the pairs from the i-th on, from
\* each of the objects os, where no decoder faults
RECURSIVE DecodeAll(_, _, _)
DecodeAll(os, pairs, i) ==
    IF i > Len(pairs) THEN os
    ELSE DecodeAll(
             UNION {{o.objs : o \in {x \in Consume(pairs[i][1], ob, config,
                                                   pairs[i][2]) :
                                        x.fault = "none"}} : ob \in os},
             pairs, i + 1)

TestConfigs ==
    UNION {DecodeAll({[o \in {"test_config"} |-> TestConfig]}, f, 1) :
              f \in TestFixtures}

\* atom->tag of n local atoms: ids 1..n ascending, or descending
Tags(n) ==
    {[i \in 0 .. n - 1 |-> i + 1], [i \in 0 .. n - 1 |-> n - i]}

\* the instances init_lammps can return: the input file, not test_config,
\* gives the number of atoms, and in a parallel run fewer may be local
Engines ==
    {[exists |-> TRUE, natoms |-> n, nlocal |-> l, tag |-> t,
      ran |-> FALSE] :
        <<n, l, t>> \in {<<n, l, t>> \in (1 .. MaxAtoms) \X (0 .. MaxAtoms)
                                         \X UNION {Tags(m) : m \in
                                                      0 .. MaxAtoms} :
                            /\ l \in {n - 1, n}
                            /\ t \in Tags(l)}}

\* a value the engine computes where the reference has e: e itself, or one
\* a relative error of 1000000 away
Far(e) ==
    IF e = QZero THEN Q(Real(1000000)) ELSE QMul(e, Q(Real(1000001)))

Observed(e) == {e, Far(e)}

\* the member of a coord_t / stress_t the c-th comparison of a row reads
CoordMember(v, c) == CASE c = 0 -> v.x [] c = 1 -> v.y [] c = 2 -> v.z

StressMember(v, c) ==
    CASE c = 0 -> v.xx [] c = 1 -> v.yy [] c = 2 -> v.zz
      [] c = 3 -> v.xy [] c = 4 -> v.xz [] c = 5 -> v.yz

\* a value read, or the fault reading it raised
Read(val, flt) == [val |-> val, fault |-> flt]

\* f_ref[index] read for its c-th member.  Outside the vector the read is
\* undefined: the process faults, or goes on with whatever the memory
\* holds.
ForceRead(vec, index, c) ==
    IF index \in DOMAIN vec THEN {Read(Q(CoordMember(vec[index], c)), "none")}
    ELSE {Read(QZero, "segv")}
         \cup {Read(Q(x), "none") : x \in IndeterminateReals}

\* a lookup of the reference vector by local index
RefIndexLocal(st, engine) == st.k \div 3

\* the index of the reference vector the k-th force comparison reads:
\* tag[i] of the local atom i = k / 3
RefIndex(st, engine) ==
    IF st.group \in {"init_forces", "run_forces"}
    THEN engine.tag[st.k \div 3] ELSE st.k

\* the pairs <<val1, val2>> the comparison st can be made of: val2 the
\* reference value of the configuration cfg, val1 what the engine holds.
\* The second run_energy comparison has the engine's reduced sum for val2.
Operands(st, cfg, engine) ==
    CASE st.group \in {"init_forces", "run_forces"} ->
           {[val1 |-> v, val2 |-> r.val, fault |-> r.fault] :
               <<r, v>> \in {<<r, v>> \in
                   ForceRead(cfg[st.group], RefIndex(st, engine), st.k % 3)
                   \X UNION {Observed(x.val) :
                               x \in ForceRead(cfg[st.group],
                                               RefIndex(st, engine),
                                               st.k % 3)} :
                   v \in Observed(r.val)}}
      [] st.group \in {"init_stress", "run_stress"} ->
           {[val1 |-> v, val2 |-> Q(StressMember(cfg[st.group], st.k)),
             fault |-> "none"] :
               v \in Observed(Q(StressMember(cfg[st.group], st.k)))}
      [] st.group \in {"init_energy", "run_energy"} /\ st.k = 0 ->
           {[val1 |-> v, val2 |-> Q(cfg[st.group]), fault |-> "none"] :
               v \in Observed(Q(cfg[st.group]))}
      [] st.group = "run_energy" /\ st.k = 1 ->
           {[val1 |-> vw[1], val2 |-> vw[2], fault |-> "none"] :
               vw \in Observed(Q(cfg.run_energy))
                        \X Observed(Q(cfg.run_energy))}

\* the statement the running test stands at, and the number of statements
(***************************************************************************)
(* The writer's conversions.  The model's reals are exact decimals of at   *)
(* most ten digits, so that no conversion here has to round; the engine's  *)
(* values below are binary fractions, whose seventeen digits are theirs.   *)
(***************************************************************************)
Zeros(n) == [i \in 1 .. n |-> "0"]

\* the decimal digits of x's mantissa, and the exponent of the first
Mantissa(x) == FormatNat(Abs(x.m))

Exp10(x) == IF x.m = 0 THEN 0 ELSE Len(Mantissa(x)) - 1 + x.e

\* the exponent as printf writes it: a sign and at least two digits
FormatExp(X) ==
    <<IF X < 0 THEN "-" ELSE "+">>
        \o (IF Abs(X) < 10 THEN <<"0">> ELSE <<>>) \o FormatNat(Abs(X))

\* snprintf(buf, 256, "% 23.16e", value): a blank or '-', one digit, '.',
\* sixteen digits, the exponent
FormatE16(x) ==
    <<IF x.m < 0 THEN "-" ELSE " ", Head(Mantissa(x)), ".">>
        \o Tail(Mantissa(x)) \o Zeros(17 - Len(Mantissa(x)))
        \o <<"e">> \o FormatExp(Exp10(x))

\* %g's scientific form: no trailing zeros, no '.' after a lone digit
FormatGSci(x) ==
    <<Head(Mantissa(x))>>
        \o (IF Len(Mantissa(x)) > 1 THEN <<".">> \o Tail(Mantissa(x))
            ELSE <<>>)
        \o <<"e">> \o FormatExp(Exp10(x))

\* %g's fixed form of a value whose first digit has exponent X
FormatGFixed(x, X) ==
    IF X < 0 THEN <<"0", ".">> \o Zeros(-X - 1) \o Mantissa(x)
    ELSE IF Len(Mantissa(x)) <= X + 1
    THEN Mantissa(x) \o Zeros(X + 1 - Len(Mantissa(x)))
    ELSE SubSeq(Mantissa(x), 1, X + 1) \o <<".">>
         \o SubSeq(Mantissa(x), X + 2, Len(Mantissa(x)))

\* a conversion that writes the integer part alone
FormatInteger(x) ==
    IF x.e >= 0 THEN FormatInt(x.m * Pow10(x.e))
    ELSE FormatInt(x.m \div Pow10(-x.e))

\* snprintf(buf, 256, "%.15g", value)
FormatG15(x) ==
    IF x.m = 0 THEN <<"0">>
    ELSE (IF x.m < 0 THEN <<"-">> ELSE <<>>)
         \o (IF Exp10(x) < -4 \/ Exp10(x) >= 15 THEN FormatGSci(x)
             ELSE FormatGFixed(x, Exp10(x)))

\* "% 3d": a blank or '-', the digits, blanks in front up to three wide
FormatTag(n) ==
    [i \in 1 .. 2 - Len(FormatNat(Abs(n))) |-> " "]
        \o <<IF n < 0 THEN "-" ELSE " ">> \o FormatNat(Abs(n))

(***************************************************************************)
(* What generate writes.  The engine's results are functions of the atom   *)
(* id and of whether the run has been made.                                *)
(***************************************************************************)
\* lmp->universe->version
EngineVersion == <<"2">>

\* ctime(&now)
CTime ==
    <<"W", "e", "d", " ", "N", "o", "v", " ", " ", "4", " ", "0", "3", ":",
      "5", "6", ":", "0", "7", " ", "2", "0", "2", "6", "\n">>

\* block = ctime(&now); block = block.substr(0, block.find("\n") - 1);
DateGenerated == substr(CTime, 0, find(CTime, <<"\n">>, 0) - 1)

\* lmp->force->bond->energy
EngineEnergy(e) == IF e.ran THEN Norm(-375, -2) ELSE Norm(-35, -1)

\* lmp->force->bond->virial
EngineStress(e) ==
    IF e.ran
    THEN stress_t(Norm(15, -1), Real(2), Real(3), Real(-4), Real(5),
                  Norm(25, 2))
    ELSE stress_t(Real(1), Real(2), Real(3), Real(-4), Norm(5, -1), Real(6))

\* lmp->atom->f[i] of the local atom with id
EngineForce(e, id) ==
    IF e.ran THEN coord_t(Real(2 - 3 * id), Norm(5, -1), Real(3 * id))
    ELSE ForceOf(id)

\* the lines of a list, each with its '\n'
RECURSIVE JoinLines(_, _)
JoinLines(lines, i) ==
    IF i > Len(lines) THEN <<>>
    ELSE lines[i] \o <<"\n">> \o JoinLines(lines, i + 1)

\* block += prerequisite.first + " " + prerequisite.second + "\n"
PrerequisiteBlock(cfg) ==
    [i \in 1 .. Len(cfg.prerequisites) |->
        cfg.prerequisites[i][1] \o <<" ">> \o cfg.prerequisites[i][2]]

\* the six "% 23.16e" of a stress, a blank between each two
StressText(s) ==
    FormatE16(s.xx) \o <<" ">> \o FormatE16(s.yy) \o <<" ">>
        \o FormatE16(s.zz) \o <<" ">> \o FormatE16(s.xy) \o <<" ">>
        \o FormatE16(s.xz) \o <<" ">> \o FormatE16(s.yz)

\* "% 3d % 23.16e % 23.16e % 23.16e\n" of (int)tag[i], f[i][0..2]
RowText(id, f) ==
    FormatTag(id) \o <<" ">> \o FormatE16(f.x) \o <<" ">> \o FormatE16(f.y)
        \o <<" ">> \o FormatE16(f.z) \o <<"\n">>

\* the row of i: the local atom's, or, tag[i] and f[i] of an i that is not
\* local being whatever the arrays hold past their end, any
RowTexts(e, i) ==
    IF i < e.nlocal THEN {RowText(e.tag[i], EngineForce(e, e.tag[i]))}
    ELSE {RowText(t, coord_t(x, x, y)) :
             <<t, x, y>> \in IndeterminateInts \X IndeterminateReals
                                \X IndeterminateReals}

\* for (int i = 0; i < natoms; ++i) { ...; block += buf; }
RECURSIVE ForcesTextsFrom(_, _)
ForcesTextsFrom(e, i) ==
    IF i >= e.natoms THEN {<<>>}
    ELSE {r \o b : <<r, b>> \in RowTexts(e, i)
                                   \X ForcesTextsFrom(e, i + 1)}

\* the texts generate can hand the writer for a key
EmitTexts(k, cfg, e) ==
    CASE k = "lammps_version" -> {EngineVersion}
      [] k = "date_generated" -> {DateGenerated}
      [] k = "epsilon" -> {FormatG15(cfg.epsilon)}
      [] k = "prerequisites" -> {JoinLines(PrerequisiteBlock(cfg), 1)}
      [] k = "pre_commands" -> {JoinLines(cfg.pre_commands, 1)}
      [] k = "post_commands" -> {JoinLines(cfg.post_commands, 1)}
      [] k = "input_file" -> {cfg.input_file}
      [] k = "bond_style" -> {cfg.bond_style}
      [] k = "bond_coeff" -> {JoinLines(cfg.bond_coeff, 1)}
      [] k = "natoms" -> {FormatInt(e.natoms)}
      [] k \in {"init_energy", "run_energy"} -> {FormatG15(EngineEnergy(e))}
      [] k \in {"init_stress", "run_stress"} -> {StressText(EngineStress(e))}
      [] k \in {"init_forces", "run_forces"} -> ForcesTextsFrom(e, 0)

\* the keys in the order of the reader's registry
RegistryOrder ==
    <<"lammps_version", "date_generated", "epsilon", "prerequisites",
      "pre_commands", "post_commands", "input_file", "bond_style",
      "bond_coeff", "natoms", "init_energy", "run_energy", "init_stress",
      "run_stress", "init_forces", "run_forces">>

\* the keys in the order generate emits them
EmitOrder ==
    <<"lammps_version", "date_generated", "epsilon", "prerequisites",
      "pre_commands", "post_commands", "input_file", "bond_style",
      "bond_coeff", "natoms", "init_energy", "init_stress", "init_forces",
      "run_energy", "run_stress", "run_forces">>

Emit(k) == [Stmt("emit") EXCEPT !.group = k]

\* generate(outfile): the engine, the writer, the keys up to init_forces,
\* the run, the run_ keys, delete lmp, and the writer's destructor
GenerateBody ==
    <<Stmt("init_lammps"), Stmt("writer")>>
        \o [i \in 1 .. Len(EmitOrder) - 3 |-> Emit(EmitOrder[i])]
        \o <<Stmt("run_lammps")>>
        \o [i \in 1 .. 3 |-> Emit(EmitOrder[Len(EmitOrder) - 3 + i])]
        \o <<Stmt("delete"), Stmt("close")>>

Bodies ==
    [name \in {"none", "plain", "omp", "intel", "generate"},
     n \in 0 .. MaxAtoms |->
        IF name = "generate" THEN GenerateBody ELSE Body(name, n)]

Statements == Bodies[test.name, lmp.nlocal]

Cur == Statements[test.ip]

At(op) ==
    /\ pc \in {"tests", "generate"}
    /\ test.name # "none"
    /\ test.ip <= Len(Statements)
    /\ Cur.op = op

\* a step of the running test, as the log keeps it: ref is the index read
\* in the reference data, eps the tolerance, held whether an assertion held
Entry(st, ref, eps, held) ==
    [op |-> st.op, group |-> st.group, k |-> st.k, ref |-> ref,
     eps |-> eps, held |-> held]

Plain(st) == Entry(st, 0, QZero, TRUE)

\* the suffix the command line of a caller turns on with -sf: none in the
\* plain test and in generate
Suffix(name) ==
    CASE name = "omp" -> <<"o", "m", "p">>
      [] name = "intel" -> <<"i", "n", "t", "e", "l">>
      [] OTHER -> <<>>

Bond == <<"b", "o", "n", "d">>

\* the style init_lammps asks Info::has_style for: the prerequisite's, with
\* "/" and the suffix appended where the prerequisite is of kind "bond"
\* and a suffix is on
PrerequisiteStyle(pre, suffix) ==
    IF pre[1] = Bond /\ suffix # <<>> THEN pre[2] \o <<"/">> \o suffix
    ELSE pre[2]

\* the has_style calls of init_lammps, avail being the prerequisites (by
\* position) the engine has
Checks(cfg, suffix, avail) ==
    [i \in 1 .. Len(cfg.prerequisites) |->
        [op |-> "has_style", group |-> "prerequisites", k |-> i,
         ref |-> <<cfg.prerequisites[i][1],
                   PrerequisiteStyle(cfg.prerequisites[i], suffix)>>,
         eps |-> QZero, held |-> i \in avail]]

\* lmp->input->one(text) / lmp->input->file(text), as the log keeps it
Command(group, k, text) ==
    [op |-> "command", group |-> group, k |-> k, ref |-> text,
     eps |-> QZero, held |-> TRUE]

\* the commands init_lammps gives the engine
Commands(cfg) ==
    [i \in 1 .. Len(cfg.pre_commands) |->
        Command("pre_commands", i, cfg.pre_commands[i])]
    \o <<Command("input_file", 1, cfg.input_file),
         Command("bond_style", 1,
                 <<"b", "o", "n", "d", "_", "s", "t", "y", "l", "e", " ">>
                 \o cfg.bond_style)>>
    \o [i \in 1 .. Len(cfg.bond_coeff) |->
           Command("bond_coeff", i,
                   <<"b", "o", "n", "d", "_", "c", "o", "e", "f", "f", " ">>
                   \o cfg.bond_coeff[i])]
    \o [i \in 1 .. Len(cfg.post_commands) |->
           Command("post_commands", i, cfg.post_commands[i])]
    \o <<Command("run", 1,
                 <<"r", "u", "n", " ", "0", " ", "p", "o", "s", "t", " ", "n",
                   "o">>)>>

\* the prerequisites the engine lacks
Missing(cfg, avail) == (1 .. Len(cfg.prerequisites)) \ avail

\* an init_lammps that runs the commands whatever the engine lacks
init_lammps_unchecked(cfg, suffix, avail) ==
    [ok |-> TRUE, log |-> Checks(cfg, suffix, avail) \o Commands(cfg)]

\* init_lammps(argc, argv, cfg): whether it returns an engine, and the
\* has_style calls and commands it makes in their order
init_lammps(cfg, suffix, avail) ==
    IF Cardinality(Missing(cfg, avail)) > 0
    THEN [ok |-> FALSE, log |-> Checks(cfg, suffix, avail)]
    ELSE [ok |-> TRUE, log |-> Checks(cfg, suffix, avail) \o Commands(cfg)]

\* the tests begin on a configuration a parse has left
InitTests ==
    /\ pc = "tests"
    /\ argc = 2
    /\ objs \in TestConfigs
    /\ state = "STOP"
    /\ accepted = FALSE
    /\ key = <<>>
    /\ status = 0
    /\ exitcode = -1
    /\ fault = "none"
    /\ ypos = [at |-> "end", k |-> "", pairs |-> 0, known |-> 0]
    /\ last = NoPass
    /\ nDispatch = 0
    /\ nDecoded = 0
    /\ stats = reset
    /\ samples = <<>>
    /\ cmp = NoCompare
    /\ test = NoTest
    /\ lmp = NoEngine
    /\ log = <<>>
    /\ argv = NoArgs
    /\ print_stats = FALSE
    /\ disk = <<>>
    /\ io = NoFile

\* the frame of a statement that only moves on
Advance(next) ==
    /\ test' = [test EXCEPT !.ip = next]
    /\ log' = Append(log, Plain(Cur))
    /\ UNCHANGED <<pc, objs, fault, stats, samples, cmp, lmp>>
    /\ UNCHANGED rvars
    /\ UNCHANGED xvars

\* RUN_ALL_TESTS enters the next TEST
TestBegin ==
    /\ pc = "tests"
    /\ test.name = "none"
    /\ test.todo # <<>>
    /\ test' = [test EXCEPT !.name = Head(test.todo),
                            !.todo = Tail(test.todo),
                            !.failed = FALSE, !.ip = 1,
                            !.epsilon = QZero]
    /\ log' = <<>>
    /\ stats' = reset
    /\ cmp' = NoCompare
    /\ lmp' = NoEngine
    /\ UNCHANGED <<pc, objs, fault, samples>>
    /\ UNCHANGED rvars
    /\ UNCHANGED xvars

\* if (!LAMMPS::is_installed_pkg(...)) GTEST_SKIP();
TestInstalledPkg ==
    /\ At("is_installed_pkg")
    /\ \E installed \in BOOLEAN :
          Advance(IF installed THEN test.ip + 1 ELSE Len(Statements) + 1)

\* lmp = init_lammps(argc, argv, test_config); if (!lmp) GTEST_SKIP();
\* init_lammps returns NULL where a prerequisite style is missing
TestInitLammps ==
    /\ At("init_lammps")
    /\ \E avail \in SUBSET (1 .. Len(objs[config].prerequisites)) :
          /\ log' = Append(log, Plain(Cur))
                       \o init_lammps(objs[config], Suffix(test.name),
                                      avail).log
          /\ IF init_lammps(objs[config], Suffix(test.name), avail).ok
             THEN /\ test' = [test EXCEPT !.ip = @ + 1]
                  /\ lmp' \in Engines
             ELSE /\ test' = [test EXCEPT !.ip = Len(Statements) + 1]
                  /\ lmp' = NoEngine
    /\ UNCHANGED <<pc, objs, fault, stats, samples, cmp>>
    /\ UNCHANGED rvars
    /\ UNCHANGED xvars

\* double epsilon = ...
TestEpsilon ==
    /\ At("epsilon")
    /\ test' = [test EXCEPT !.ip = @ + 1,
                            !.epsilon = Epsilon(test.name, objs[config])]
    /\ log' = Append(log, Plain(Cur))
    /\ UNCHANGED <<pc, objs, fault, stats, samples, cmp, lmp>>
    /\ UNCHANGED rvars
    /\ UNCHANGED xvars

\* EXPECT_THAT(output, StartsWith("LAMMPS (")); EXPECT_THAT(output,
\* HasSubstr("Loop time"));
TestExpectOutput ==
    /\ At("expect_output")
    /\ \E holds \in BOOLEAN :
          test' = [test EXCEPT !.ip = @ + 1, !.failed = @ \/ ~holds]
    /\ log' = Append(log, Plain(Cur))
    /\ UNCHANGED <<pc, objs, fault, stats, samples, cmp, lmp>>
    /\ UNCHANGED rvars
    /\ UNCHANGED xvars

\* the frame of an ASSERT_EQ
AssertionStep(holds) ==
    /\ test' = [test EXCEPT
                   !.ip = ASSERT_EQ(holds, test.ip, Len(Statements)),
                   !.failed = @ \/ ~holds]
    /\ log' = Append(log, Entry(Cur, 0, QZero, holds))
    /\ UNCHANGED <<pc, objs, fault, stats, samples, cmp, lmp>>
    /\ UNCHANGED rvars
    /\ UNCHANGED xvars

\* ASSERT_EQ(lmp->atom->natoms, nlocal);
TestAssertNlocal ==
    /\ At("assert_nlocal")
    /\ AssertionStep(lmp.natoms = lmp.nlocal)

\* ASSERT_EQ(nlocal+1, f_ref.size()); ASSERT_EQ(nlocal+1, f_run.size());
TestAssertSize ==
    /\ At("assert_size")
    /\ AssertionStep(lmp.nlocal + 1 = size(objs[config][Cur.group]))

\* stats.reset();
TestReset ==
    /\ At("reset")
    /\ stats' = reset
    /\ test' = [test EXCEPT !.ip = @ + 1]
    /\ log' = Append(log, Plain(Cur))
    /\ UNCHANGED <<pc, objs, fault, samples, cmp, lmp>>
    /\ UNCHANGED rvars
    /\ UNCHANGED xvars

\* a tolerance that leaves the statement's factor out
ToleranceEpsilon(st) == test.epsilon

\* the tolerance of the comparison st
Tolerance(st) == QMul(Q(Real(st.factor)), test.epsilon)

\* EXPECT_FP_LE_WITH_EPS on the operands o: the fault of reading them, or
\* the comparison r made
CompareStep(o, r) ==
    IF o.fault # "none"
    THEN /\ fault' = o.fault
         /\ pc' = "dead"
         /\ UNCHANGED <<stats, cmp, test, log>>
    ELSE /\ stats' = r.stats
         /\ cmp' = Compared(r)
         /\ test' = [test EXCEPT
                        !.ip = EXPECT_PRED_FORMAT2(r.pass, test.ip,
                                                   Len(Statements)),
                        !.failed = @ \/ ~r.pass]
         /\ log' = Append(log, Entry(Cur, RefIndex(Cur, lmp),
                                     Tolerance(Cur), TRUE))
         /\ UNCHANGED <<pc, fault>>

\* EXPECT_FP_LE_WITH_EPS(observed, reference, tolerance);
TestCompare ==
    /\ At("compare")
    /\ \E o \in Operands(Cur, objs[config], lmp) :
          CompareStep(o, EXPECT_FP_LE_WITH_EPS(stats, o.val1, o.val2,
                                               Tolerance(Cur)))
    /\ UNCHANGED <<objs, lmp, samples>>
    /\ UNCHANGED rvars
    /\ UNCHANGED xvars

\* if (print_stats) std::cerr << ... << stats << std::endl;
TestPrint ==
    /\ At("print")
    /\ Advance(test.ip + 1)

\* run_lammps(lmp);
TestRunLammps ==
    /\ At("run_lammps")
    /\ lmp' = [lmp EXCEPT !.ran = TRUE]
    /\ test' = [test EXCEPT !.ip = @ + 1]
    /\ log' = Append(log, Plain(Cur))
    /\ UNCHANGED <<pc, objs, fault, stats, samples, cmp>>
    /\ UNCHANGED rvars
    /\ UNCHANGED xvars

\* delete lmp;
TestDelete ==
    /\ At("delete")
    /\ lmp' = NoEngine
    /\ test' = [test EXCEPT !.ip = @ + 1]
    /\ log' = Append(log, Plain(Cur))
    /\ UNCHANGED <<pc, objs, fault, stats, samples, cmp>>
    /\ UNCHANGED rvars
    /\ UNCHANGED xvars

\* the TEST returns: at its end, skipped, or from a failed ASSERT_EQ
TestEnd ==
    /\ pc = "tests"
    /\ test.name # "none"
    /\ test.ip > Len(Statements)
    /\ test' = [test EXCEPT !.name = "none", !.ip = 0,
                            !.anyFailed = @ \/ test.failed]
    /\ UNCHANGED <<pc, objs, fault, stats, samples, cmp, lmp, log>>
    /\ UNCHANGED rvars
    /\ UNCHANGED xvars

\* return RUN_ALL_TESTS();
TestsDone ==
    /\ pc = "tests"
    /\ test.name = "none"
    /\ test.todo = <<>>
    /\ pc' = "exit"
    /\ exitcode' = IF test.anyFailed THEN 1 ELSE 0
    /\ UNCHANGED <<objs, fault, stats, samples, cmp, test, lmp, log>>
    /\ UNCHANGED <<argc, state, accepted, key, status, ypos, last,
                   nDispatch, nDecoded>>
    /\ UNCHANGED xvars

NextTests ==
    \/ TestBegin
    \/ TestInstalledPkg
    \/ TestInitLammps
    \/ TestEpsilon
    \/ TestExpectOutput
    \/ TestAssertNlocal
    \/ TestAssertSize
    \/ TestReset
    \/ TestCompare
    \/ TestPrint
    \/ TestRunLammps
    \/ TestDelete
    \/ TestEnd
    \/ TestsDone

SpecTests == InitTests /\ [][NextTests]_vars

(***************************************************************************)
(* generate(outfile), run by the interpreter of the tests on GenerateBody. *)
(* disk is the output file as the key/value pairs a later parse finds in   *)
(* it; the emitter and the parser of libyaml give a scalar back as it was  *)
(* written.                                                                *)
(***************************************************************************)
\* main has parsed the file and calls generate(argv[3])
InitGenerate ==
    /\ pc = "generate"
    /\ argc = 4
    /\ objs \in TestConfigs
    /\ state = "STOP"
    /\ accepted = FALSE
    /\ key = <<>>
    /\ status = 0
    /\ exitcode = -1
    /\ fault = "none"
    /\ ypos = [at |-> "end", k |-> "", pairs |-> 0, known |-> 0]
    /\ last = NoPass
    /\ nDispatch = 0
    /\ nDecoded = 0
    /\ stats = reset
    /\ samples = <<>>
    /\ cmp = NoCompare
    /\ test = [NoTest EXCEPT !.name = "generate", !.todo = <<>>, !.ip = 1]
    /\ lmp = NoEngine
    /\ log = <<>>
    /\ argv = [opt |-> "--gen", arg |-> "out.yaml"]
    /\ print_stats = FALSE
    /\ disk = <<>>
    /\ io = NoFile

\* YamlWriter writer(outfile): fopen(outfile, "w") gives the file, empty,
\* or NULL, and then the constructor returns at once
GenWriter ==
    /\ At("writer")
    /\ \E ok \in BOOLEAN :
          /\ io' = fopen(io, ok)
          /\ disk' = IF ok THEN <<>> ELSE disk
    /\ test' = [test EXCEPT !.ip = @ + 1]
    /\ log' = Append(log, Plain(Cur))
    /\ UNCHANGED <<pc, objs, fault, stats, samples, cmp, lmp>>
    /\ UNCHANGED rvars
    /\ UNCHANGED <<argv, print_stats>>

\* writer.emit(key, value) / writer.emit_block(key, block): the pair goes
\* to the file if there is one; the log keeps the text and whether it did
GenEmit ==
    /\ At("emit")
    /\ \E t \in EmitTexts(Cur.group, objs[config], lmp) :
          /\ log' = Append(log, Entry(Cur, t, QZero, io.fp = "open"))
          /\ disk' = IF io.fp = "open" THEN Append(disk, <<Cur.group, t>>)
                     ELSE disk
    /\ io' = IF io.fp = "open" THEN io ELSE [io EXCEPT !.misuse = @ + 1]
    /\ test' = [test EXCEPT !.ip = @ + 1]
    /\ UNCHANGED <<pc, objs, fault, stats, samples, cmp, lmp>>
    /\ UNCHANGED rvars
    /\ UNCHANGED <<argv, print_stats>>

\* ~YamlWriter(): the closing events, yaml_emitter_delete, fclose(fp);
\* fclose of the NULL a failed fopen left is undefined: it returns or it
\* ends the process
GenClose ==
    /\ At("close")
    /\ io' = fclose(io)
    /\ log' = Append(log, Plain(Cur))
    /\ \E crash \in {FALSE, io.fp # "open"} :
          IF crash
          THEN /\ pc' = "dead"
               /\ fault' = "segv"
               /\ test' = test
          ELSE /\ pc' = pc
               /\ fault' = fault
               /\ test' = [test EXCEPT !.ip = @ + 1]
    /\ UNCHANGED <<objs, stats, samples, cmp, lmp>>
    /\ UNCHANGED <<argc, state, accepted, key, status, exitcode, ypos, last,
                   nDispatch, nDecoded>>
    /\ UNCHANGED <<argv, print_stats, disk>>

\* generate returns, at its end or where init_lammps gave no engine, and
\* main returns 0
GenReturn ==
    /\ pc = "generate"
    /\ test.name = "generate"
    /\ test.ip > Len(Statements)
    /\ pc' = "exit"
    /\ exitcode' = 0
    /\ UNCHANGED <<objs, fault, stats, samples, cmp, test, lmp, log>>
    /\ UNCHANGED <<argc, state, accepted, key, status, ypos, last,
                   nDispatch, nDecoded>>
    /\ UNCHANGED xvars

\* a later run parses the file generate has written into a fresh
\* test_config; the one generate wrote from is kept as "original"
GenReadBack ==
    /\ pc = "exit"
    /\ test.name = "generate"
    /\ io.fp = "closed"
    /\ objs' \in {[o \in {"test_config", "original"} |->
                      IF o = "original" THEN objs[config] ELSE d[config]] :
                     d \in DecodeAll({[o \in {"test_config"} |->
                                          TestConfig]}, disk, 1)}
    /\ pc' = "reread"
    /\ UNCHANGED <<fault, stats, samples, cmp, test, lmp, log>>
    /\ UNCHANGED rvars
    /\ UNCHANGED xvars

NextGenerate ==
    \/ TestInitLammps
    \/ GenWriter
    \/ GenEmit
    \/ TestRunLammps
    \/ TestDelete
    \/ GenClose
    \/ GenReturn
    \/ GenReadBack

SpecGenerate == InitGenerate /\ [][NextGenerate]_vars

(***************************************************************************)
(* parse_file called twice on one file and one TestConfig.  A pass is      *)
(* taken pair by pair, each pair a key and the scalar of its value as the  *)
(* loop hands them to consume_key_value; the configuration the first pass  *)
(* leaves is kept as "once".                                               *)
(***************************************************************************)
ReparsePairs ==
    {<<"natoms", <<"2">>>>,
     <<"init_forces", ForceRow(0)>>,
     <<"init_forces", ForceBlock(1, 2)>>,
     <<"run_forces", ForceRow(1)>>,
     <<"pre_commands", <<"c", " ", "1", "\n">>>>,
     <<"pre_commands", <<"c", " ", "2", "\n", "c", " ", "3", "\n">>>>,
     <<"prerequisites", <<"b", "o", "n", "d", " ", "h", "\n">>>>}

\* the files of up to MaxPairs pairs
ReparseFiles ==
    UNION {[1 .. n -> ReparsePairs] : n \in 1 .. MaxPairs}

InitReparse ==
    /\ pc = "reparse"
    /\ argc = 2
    /\ objs = [o \in {"test_config"} |-> TestConfig]
    /\ state = "START"
    /\ accepted = FALSE
    /\ key = <<>>
    /\ status = 0
    /\ exitcode = -1
    /\ fault = "none"
    /\ ypos = [at |-> "stream", k |-> "", pairs |-> 0, known |-> 0]
    /\ last = NoPass
    /\ nDispatch = 0
    /\ nDecoded = 0
    /\ stats = reset
    /\ samples = <<>>
    /\ cmp = NoCompare
    /\ test = NoTest
    /\ lmp = NoEngine
    /\ log = <<>>
    /\ argv = NoArgs
    /\ print_stats = FALSE
    /\ disk \in ReparseFiles
    /\ io = NoFile

\* fopen(infile, "r") of a pass, the file being there
ReparseOpen ==
    /\ pc = "reparse"
    /\ io.fp # "open"
    /\ io.opens < 2
    /\ io' = fopen(io, TRUE)
    /\ ypos' = [ypos EXCEPT !.at = "pair", !.pairs = 0]
    /\ state' = "ACCEPT_KEY"
    /\ UNCHANGED <<pc, objs, fault>>
    /\ UNCHANGED <<argc, accepted, key, status, exitcode, last, nDispatch,
                   nDecoded>>
    /\ UNCHANGED tvars
    /\ UNCHANGED <<argv, print_stats, disk>>

\* a key and its value: consume_key_value runs the key's decoder
ReparsePair ==
    /\ pc = "reparse"
    /\ io.fp = "open"
    /\ ypos.pairs < Len(disk)
    /\ \E o \in Consume(disk[ypos.pairs + 1][1], objs, config,
                        disk[ypos.pairs + 1][2]) :
          /\ objs' = o.objs
          /\ fault' = o.fault
          /\ pc' = IF o.fault = "none" THEN pc ELSE "dead"
    /\ ypos' = [ypos EXCEPT !.pairs = @ + 1]
    /\ nDecoded' = nDecoded + 1
    /\ UNCHANGED <<argc, state, accepted, key, status, exitcode, last,
                   nDispatch>>
    /\ UNCHANGED tvars
    /\ UNCHANGED xvars

\* the stream ends: yaml_parser_delete, fclose(fp), return 0
ReparseReturn ==
    /\ pc = "reparse"
    /\ io.fp = "open"
    /\ ypos.pairs = Len(disk)
    /\ io' = fclose(io)
    /\ ypos' = [ypos EXCEPT !.at = "end"]
    /\ state' = "STOP"
    /\ objs' = IF io.closes = 0
               THEN [o \in {"test_config", "once"} |-> objs[config]]
               ELSE objs
    /\ UNCHANGED <<pc, fault>>
    /\ UNCHANGED <<argc, accepted, key, status, exitcode, last, nDispatch,
                   nDecoded>>
    /\ UNCHANGED tvars
    /\ UNCHANGED <<argv, print_stats, disk>>

NextReparse == ReparseOpen \/ ReparsePair \/ ReparseReturn

SpecReparse == InitReparse /\ [][NextReparse]_vars

(***************************************************************************)
(* A TestConfigReader constructed on a TestConfig that is not the global   *)
(* test_config, and one parse_file with it, pair by pair.                  *)
(***************************************************************************)
\* the name of the object the reader is constructed on
other == "other"

ReaderPairs ==
    ReparsePairs
    \cup {<<"post_commands", <<"c", " ", "4", "\n">>>>,
          <<"bond_coeff", <<"c", " ", "1", "\n", "c", " ", "2", "\n">>>>,
          <<"epsilon", <<"2", "e", "-", "9">>>>,
          <<"bond_style", <<"h">>>>}

ReaderFiles == UNION {[1 .. n -> ReaderPairs] : n \in 1 .. MaxPairs}

InitReader ==
    /\ pc = "reader"
    /\ argc = 2
    /\ objs = [o \in {"test_config", other} |-> TestConfig]
    /\ state = "START"
    /\ accepted = FALSE
    /\ key = <<>>
    /\ status = 0
    /\ exitcode = -1
    /\ fault = "none"
    /\ ypos = [at |-> "stream", k |-> "", pairs |-> 0, known |-> 0]
    /\ last = NoPass
    /\ nDispatch = 0
    /\ nDecoded = 0
    /\ stats = reset
    /\ samples = <<>>
    /\ cmp = NoCompare
    /\ test = NoTest
    /\ lmp = NoEngine
    /\ log = <<>>
    /\ argv = NoArgs
    /\ print_stats = FALSE
    /\ disk \in ReaderFiles
    /\ io = NoFile

\* fopen(infile, "r"), the file being there
ReaderOpen ==
    /\ pc = "reader"
    /\ io.fp = "none"
    /\ io' = fopen(io, TRUE)
    /\ ypos' = [ypos EXCEPT !.at = "pair", !.pairs = 0]
    /\ state' = "ACCEPT_KEY"
    /\ UNCHANGED <<pc, objs, fault>>
    /\ UNCHANGED <<argc, accepted, key, status, exitcode, last, nDispatch,
                   nDecoded>>
    /\ UNCHANGED tvars
    /\ UNCHANGED <<argv, print_stats, disk>>

\* a key and its value: consume_key_value runs the key's decoder, whose
\* config is the object the reader was constructed on
ReaderPair ==
    /\ pc = "reader"
    /\ io.fp = "open"
    /\ ypos.pairs < Len(disk)
    /\ \E o \in Consume(disk[ypos.pairs + 1][1], objs, other,
                        disk[ypos.pairs + 1][2]) :
          /\ objs' = o.objs
          /\ fault' = o.fault
          /\ pc' = IF o.fault = "none" THEN pc ELSE "dead"
    /\ ypos' = [ypos EXCEPT !.pairs = @ + 1]
    /\ nDecoded' = nDecoded + 1
    /\ UNCHANGED <<argc, state, accepted, key, status, exitcode, last,
                   nDispatch>>
    /\ UNCHANGED tvars
    /\ UNCHANGED xvars

\* the stream ends: yaml_parser_delete, fclose(fp), return 0
ReaderReturn ==
    /\ pc = "reader"
    /\ io.fp = "open"
    /\ ypos.pairs = Len(disk)
    /\ io' = fclose(io)
    /\ ypos' = [ypos EXCEPT !.at = "end"]
    /\ state' = "STOP"
    /\ UNCHANGED <<pc, objs, fault>>
    /\ UNCHANGED <<argc, accepted, key, status, exitcode, last, nDispatch,
                   nDecoded>>
    /\ UNCHANGED tvars
    /\ UNCHANGED <<argv, print_stats, disk>>

NextReader == ReaderOpen \/ ReaderPair \/ ReaderReturn

SpecReader == InitReader /\ [][NextReader]_vars

\* the tests or generate, as main calls the one or the other
NextRun == NextTests \/ NextGenerate

SpecRun == (InitTests \/ InitGenerate) /\ [][NextRun]_vars

(***************************************************************************)
(* Properties.                                                             *)
(***************************************************************************)
\* the object the reader fills
Config == objs[config]

ForceKeys == {"init_forces", "run_forces"}

\* the decoder of key f ran in the latest pass of the loop, on the text
\* last.pair[2]
JustDecoded(f) == accepted /\ key = KeyText(f)

\* C1: once consume_event has moved to ERROR, or yaml_parser_parse has
\* failed, parse_file returns a nonzero status and main exits with code 2:
\* neither the tests nor generate are reached.
C1_ErrorFailsTheParse ==
    (last.to = "ERROR" \/ ~last.ok) =>
        /\ pc \notin {"tests", "generate"}
        /\ pc = "returned" => status # 0
        /\ pc = "exit" => exitcode = 2

\* C2: in START a mapping start leads to ACCEPT_KEY, a stream end to STOP,
\* a scalar or a sequence start to ERROR, and a stream start, document
\* start or document end leave START; no event in START accepts a pair,
\* and nothing has been dispatched while the reader is there.
C2_StartTransitions ==
    (last.from = "START" /\ last.ok) =>
        /\ last.event.type = "MAPPING_START" => last.to = "ACCEPT_KEY"
        /\ last.event.type = "STREAM_END" => last.to = "STOP"
        /\ last.event.type \in {"SCALAR", "SEQUENCE_START"} =>
              last.to = "ERROR"
        /\ last.event.type \in {"STREAM_START", "DOCUMENT_START",
                                "DOCUMENT_END"} => last.to = "START"
        /\ ~accepted
        /\ last.pair = <<>>
        /\ nDispatch = 0

\* a document end arrived in START and the reader is still there
C2_Witness ==
    /\ pc = "parse"
    /\ last.from = "START"
    /\ last.event.type = "DOCUMENT_END"
    /\ state = "START"

\* C3: in ACCEPT_KEY a scalar becomes the pending key and leads to
\* ACCEPT_VALUE, a mapping end leads to STOP, every other event leads to
\* ERROR; and no pass of the loop starts in STOP.
C3_AcceptKeyTransitions ==
    /\ last.from # "STOP"
    /\ (last.from = "ACCEPT_KEY" /\ last.ok) =>
          CASE last.event.type = "SCALAR" ->
                 last.to = "ACCEPT_VALUE" /\ key = last.event.value
            [] last.event.type = "MAPPING_END" ->
                 last.to = "STOP" /\ state = "STOP"
            [] OTHER -> last.to = "ERROR"

\* C4: consume_key_value is called exactly in the passes where a scalar
\* arrives in ACCEPT_VALUE, with the key recorded last and the scalar's
\* text, and the state is then ACCEPT_KEY; every other event in
\* ACCEPT_VALUE leads to ERROR with no call; the calls made number the
\* key/value scalar pairs delivered.
C4_DispatchOnValueScalar ==
    /\ (last.from = "ACCEPT_VALUE" /\ last.ok) =>
          IF last.event.type = "SCALAR"
          THEN /\ accepted
               /\ last.pair = <<KeyText(ypos.k), last.event.value>>
               /\ last.to = "ACCEPT_KEY"
          ELSE /\ last.to = "ERROR"
               /\ ~accepted
               /\ last.pair = <<>>
    /\ (last.from # "none"
        /\ ~(last.from = "ACCEPT_VALUE" /\ last.ok
             /\ last.event.type = "SCALAR")) =>
          (~accepted /\ last.pair = <<>>)
    /\ nDispatch = ypos.pairs

\* C5: a pass that dispatches a pair whose key has no consumer changes no
\* TestConfig, leaves the reader in ACCEPT_KEY and the process running;
\* and every pair with a registered key the file has delivered has had
\* its decoder run.
C5_UnknownKeySkipped ==
    /\ [][(nDispatch' # nDispatch
           /\ key' \notin {KeyText(c) : c \in consumers})
          => (objs' = objs /\ state' = "ACCEPT_KEY" /\ fault' = "none"
              /\ pc' = "parse" /\ nDecoded' = nDecoded)]_vars
    /\ [](nDecoded = ypos.known)

\* an unknown key was dispatched, and the natoms pair after it was decoded
C5_Witness ==
    /\ nDispatch = 2
    /\ nDecoded = 1
    /\ JustDecoded("natoms")
    /\ Config.natoms = 2
    /\ state = "ACCEPT_KEY"

\* C6: a pass that dispatches the pair of key K changes no field of the
\* configuration other than field K.
C6_DecoderFrame ==
    [][nDispatch' # nDispatch =>
          \A f \in DOMAIN TestConfig :
             KeyText(f) # key' => objs'[config][f] = objs[config][f]]_vars

C8_EpsilonPositive == Config.epsilon.m > 0

\* the positions of the rows of text that sscanf converts in full
WellFormedRows(text) ==
    {j \in 1 .. Len(Lines(text)) : sscanf_row(Lines(text)[j]).n = 4}

\* the indices the well-formed rows of text name
NamedIndices(text) ==
    {sscanf_row(Lines(text)[j]).tag : j \in WellFormedRows(text)}

\* the force of the last well-formed row of text that names index i
RowForce(text, i) ==
    LET j == CHOOSE j \in WellFormedRows(text) :
                /\ sscanf_row(Lines(text)[j]).tag = i
                /\ \A j2 \in WellFormedRows(text) :
                      sscanf_row(Lines(text)[j2]).tag = i => j2 <= j
        r == sscanf_row(Lines(text)[j])
    IN  coord_t(r.vals[1], r.vals[2], r.vals[3])

\* array arr holds each well-formed row of text at the index the row
\* names and the zero vector everywhere else
RowsAtTheirIndex(arr, text) ==
    /\ \A i \in NamedIndices(text) :
          i \in DOMAIN arr /\ arr[i] = RowForce(text, i)
    /\ \A i \in DOMAIN arr \ NamedIndices(text) :
          arr[i] = coord_t(Zero, Zero, Zero)

\* C9: with natoms = N decoded, a force array just decoded has N+1
\* entries, each well-formed row at the index of its atom id, and the zero
\* vector at every index no row names.
C9_RowsAtTheirIndex ==
    \A f \in ForceKeys :
       (JustDecoded(f) /\ fault = "none" /\ Config.natoms >= 1) =>
          /\ size(Config[f]) = Config.natoms + 1
          /\ RowsAtTheirIndex(Config[f], last.pair[2])

\* every row of text is well-formed and names an index of 0..n
WellFormedBlock(text, n) ==
    /\ WellFormedRows(text) = 1 .. Len(Lines(text))
    /\ NamedIndices(text) \subseteq 0 .. n

\* C9 holds of the blocks whose rows are all well-formed and within 0..N
RowsAtTheirIndexInWellFormedBlocks ==
    \A f \in ForceKeys :
       (JustDecoded(f) /\ Config.natoms >= 1
        /\ WellFormedBlock(last.pair[2], Config.natoms)) =>
          /\ fault = "none"
          /\ size(Config[f]) = Config.natoms + 1
          /\ RowsAtTheirIndex(Config[f], last.pair[2])

\* the numbers sscanf converts from the rows of text
Converted(text) ==
    UNION {{sscanf_row(Lines(text)[j]).vals[c] :
               c \in 1 .. Len(sscanf_row(Lines(text)[j]).vals)} :
              j \in 1 .. Len(Lines(text))}

\* C10: a force array just decoded holds, in every component of every
\* entry, zero or a number converted from a row of the block: what a row
\* did not give is stored as zero, never as an indeterminate value.
C10_UnparsedComponentsZero ==
    \A f \in ForceKeys :
       (JustDecoded(f) /\ fault = "none") =>
          \A i \in DOMAIN Config[f] :
             /\ Config[f][i].x \in {Zero} \cup Converted(last.pair[2])
             /\ Config[f][i].y \in {Zero} \cup Converted(last.pair[2])
             /\ Config[f][i].z \in {Zero} \cup Converted(last.pair[2])

\* the whitespace-separated fields of s from position i (1-based), cur
\* being the field under way
RECURSIVE Fields(_, _, _)
Fields(s, i, cur) ==
    IF i > Len(s) THEN (IF cur = <<>> THEN <<>> ELSE <<cur>>)
    ELSE IF s[i] \in Blank
         THEN (IF cur = <<>> THEN <<>> ELSE <<cur>>) \o Fields(s, i + 1, <<>>)
         ELSE Fields(s, i + 1, Append(cur, s[i]))

\* the (kind, style-name) pairs of the lines from the i-th on: the first
\* two fields of each line that has two
RECURSIVE FieldPairs(_, _)
FieldPairs(lines, i) ==
    IF i > Len(lines) THEN <<>>
    ELSE (IF Len(Fields(lines[i], 1, <<>>)) >= 2
          THEN << <<Fields(lines[i], 1, <<>>)[1],
                    Fields(lines[i], 1, <<>>)[2]>> >>
          ELSE <<>>) \o FieldPairs(lines, i + 1)

\* C11: a prerequisites block just decoded has given, in line order, the
\* pair (first field, second field) of every line that has two fields,
\* the style name being the second field alone.
C11_PrerequisitePairs ==
    JustDecoded("prerequisites") =>
       /\ fault = "none"
       /\ Config.prerequisites = FieldPairs(Lines(last.pair[2]), 1)

\* C11 holds of the blocks whose lines have at most two fields
PrerequisitePairsOfTwoFieldLines ==
    (JustDecoded("prerequisites")
     /\ \A j \in 1 .. Len(Lines(last.pair[2])) :
           Len(Fields(Lines(last.pair[2])[j], 1, <<>>)) <= 2) =>
       /\ fault = "none"
       /\ Config.prerequisites = FieldPairs(Lines(last.pair[2]), 1)

RECURSIVE SumOf(_, _)
SumOf(seq, i) == IF i > Len(seq) THEN QZero ELSE QAdd(seq[i], SumOf(seq, i + 1))

C13_SelfComparisonExact ==
    (cmp # NoCompare /\ cmp.val1 = cmp.val2 /\ ~QLess(cmp.eps, QZero)) =>
       (cmp.err = QZero /\ cmp.pass)

\* 0 compared with 0 under tolerance 0
C13_Witness ==
    /\ cmp.num = 1
    /\ samples = <<QZero>>
    /\ cmp.val1 = QZero
    /\ cmp.val2 = QZero
    /\ cmp.eps = QZero
    /\ cmp.pass

\* C14: the latest comparison with its two values exchanged computes the
\* same error and passes or fails alike.
C14_CompareSymmetric ==
    cmp # NoCompare =>
       /\ Err(cmp.val2, cmp.val1) = cmp.err
       /\ EXPECT_FP_LE_WITH_EPS(reset, cmp.val2, cmp.val1, cmp.eps).pass
             = cmp.pass

\* 3 against 1: the smaller magnitude is that of the second value
C14_Witness ==
    /\ cmp.val1 = Q(Real(3))
    /\ cmp.val2 = Q(Real(1))
    /\ cmp.err = Q(Real(2))
    /\ cmp.num = 1

\* the largest of the values of seq
MaxOf(seq) ==
    CHOOSE v \in {seq[j] : j \in 1 .. Len(seq)} :
       \A j \in 1 .. Len(seq) : ~QLess(v, seq[j])

\* the first position of seq that holds v
FirstIndex(seq, v) ==
    CHOOSE j \in 1 .. Len(seq) :
       seq[j] = v /\ \A j2 \in 1 .. j - 1 : seq[j2] # v

\* C15 as stated: after reset and N >= 1 values, max() is the largest of
\* them and idx() a position that holds it.
C15_MaxAndItsPosition ==
    samples # <<>> =>
       /\ max(stats) = MaxOf(samples)
       /\ idx(stats) \in 1 .. Len(samples)
       /\ samples[idx(stats)] = MaxOf(samples)

\* C15: max() is the largest of the values; idx() is the first position
\* that holds it when it is positive, and -1 when every value is 0.
C15_MaxAndFirstPositivePosition ==
    samples # <<>> =>
       /\ max(stats) = MaxOf(samples)
       /\ idx(stats) = IF MaxOf(samples) = QZero THEN -1
                       ELSE FirstIndex(samples, MaxOf(samples))

\* a tie: 2, 2 leaves max 2 at position 1
C15_Witness ==
    /\ samples = <<Q(Real(2)), Q(Real(2))>>
    /\ max(stats) = Q(Real(2))
    /\ idx(stats) = 1

\* the comparisons among the logged steps
CompareEntries(l) == {i \in 1 .. Len(l) : l[i].op = "compare"}

NCompares(l) == Cardinality(CompareEntries(l))

\* the test has reached its last statement
AtEnd == At("delete")

\* C16: a comparison that exceeds its tolerance neither stops nor skips
\* the comparisons after it.  Every comparison made is followed by the
\* next statement, whatever its outcome, and a test that reaches its end
\* has made 3 per local atom for the forces, 6 for the stress, in both
\* phases, and 3 for the energies.
C16_FailedComparisonNeverStops ==
    /\ [](AtEnd => NCompares(log) = 2 * (3 * lmp.nlocal + 6) + 3)
    /\ [][At("compare") /\ fault' = "none"
              => /\ test'.ip = test.ip + 1
                 /\ NCompares(log') = NCompares(log) + 1]_vars

\* a test at its end whose last group had its first comparison fail and
\* its second made
C16_Witness ==
    /\ AtEnd
    /\ test.failed
    /\ stats.num = 2
    /\ idx(stats) = 1
    /\ NCompares(log) = 2 * (3 * lmp.nlocal + 6) + 3

\* the tolerance the plain test is said to give a group, eps being the
\* fixture's epsilon: run force and run energy comparisons 10 * eps
SaidPlainTolerance(group, eps) ==
    IF group \in {"run_forces", "run_energy"}
    THEN QMul(Q(Real(10)), eps) ELSE eps

\* the same with the run energy comparisons under eps
PlainTolerance(group, eps) ==
    IF group = "run_forces" THEN QMul(Q(Real(10)), eps) ELSE eps

\* C17 as stated: in the plain test stress comparisons use epsilon in both
\* phases, force and energy comparisons after the run 10 * epsilon, and
\* force and energy comparisons before it epsilon.
C17_PlainTolerances ==
    pc = "tests" /\ test.name = "plain" =>
       \A i \in CompareEntries(log) :
          log[i].eps = SaidPlainTolerance(log[i].group,
                                          Q(objs[config].epsilon))

\* C17 amended: in the plain test only the force comparisons after the run
\* use 10 * epsilon; stress comparisons in both phases, force and energy
\* comparisons before the run and both energy comparisons after it use
\* epsilon.
C17_PlainTolerancesEnergyEpsilon ==
    pc = "tests" /\ test.name = "plain" =>
       \A i \in CompareEntries(log) :
          log[i].eps = PlainTolerance(log[i].group, Q(objs[config].epsilon))

\* the plain test at its end, every group compared
C17_Witness ==
    /\ AtEnd
    /\ test.name = "plain"
    /\ lmp.nlocal >= 1
    /\ \E i \in CompareEntries(log) : log[i].group = "run_forces"
    /\ \E i \in CompareEntries(log) : log[i].group = "run_energy"

\* some post command turns tabulation on: it contains "bond_modify table"
\* and not "bond_modify table 0"
Tabulated(cmds) ==
    \E i \in 1 .. Len(cmds) :
       /\ find(cmds[i], BondModifyTable, 0) # npos
       /\ find(cmds[i], BondModifyTable0, 0) = npos

\* C18: the base tolerance of the intel test is 5 * epsilon, times 1000000
\* where some post command turns tabulation on; so it is 5 * epsilon or
\* 5000000 * epsilon.
C18_IntelBaseTolerance ==
    pc = "tests" /\ test.name = "intel"
       /\ (\E i \in 1 .. Len(log) : log[i].op = "epsilon") =>
       test.epsilon = IF Tabulated(objs[config].post_commands)
                      THEN QMul(Q(Real(5000000)), Q(objs[config].epsilon))
                      ELSE QMul(Q(Real(5)), Q(objs[config].epsilon))

\* where a group stands in the order of comparison
Rank(group) ==
    CASE group = "init_forces" -> 1 [] group = "init_stress" -> 2
      [] group = "init_energy" -> 3 [] group = "run_forces" -> 4
      [] group = "run_stress" -> 5 [] group = "run_energy" -> 6

\* the logged steps where the engine was advanced
RunEntries(l) == {i \in 1 .. Len(l) : l[i].op = "run_lammps"}

\* C19: in every test the comparisons are made in the order init_forces,
\* init_stress (6), init_energy, then run_lammps, then run_forces,
\* run_stress (6), run_energy and the cross-check against the engine's
\* reduced sum; init comparisons precede the run and run comparisons follow
\* it; the reference force of local atom i is read at index tag[i].
C19_ComparisonOrder ==
    pc = "tests" =>
       /\ \A i, j \in CompareEntries(log) :
             i < j => \/ Rank(log[i].group) < Rank(log[j].group)
                      \/ /\ log[i].group = log[j].group
                         /\ log[i].k < log[j].k
       /\ \A i \in CompareEntries(log), r \in RunEntries(log) :
             (i < r) = (Rank(log[i].group) <= 3)
       /\ \A i \in CompareEntries(log) :
             /\ log[i].group \in {"init_stress", "run_stress"}
                   => log[i].k \in 0 .. 5
             /\ log[i].group \in {"init_forces", "run_forces"} /\ lmp.exists
                   => log[i].ref = lmp.tag[log[i].k \div 3]
       /\ AtEnd =>
             \A g \in {"init_forces", "init_stress", "init_energy",
                       "run_forces", "run_stress", "run_energy"} :
                Cardinality({i \in CompareEntries(log) : log[i].group = g})
                   = CASE g \in {"init_forces", "run_forces"} ->
                             3 * lmp.nlocal
                       [] g \in {"init_stress", "run_stress"} -> 6
                       [] g = "init_energy" -> 1
                       [] g = "run_energy" -> 2

\* a test at its end whose local atoms are not in the order of their ids
C19_Witness ==
    /\ AtEnd
    /\ lmp.nlocal >= 2
    /\ lmp.tag[0] = lmp.nlocal
    /\ \E i \in CompareEntries(log) :
          log[i].group = "run_forces" /\ log[i].k = 0
             /\ log[i].ref = lmp.nlocal

\* the logged checks of the local against the global atom count
NlocalChecks(l) == {i \in 1 .. Len(l) : l[i].op = "assert_nlocal"}

\* C20: no sample is recorded and no reference value read before the
\* check natoms = nlocal has been made and has held; where it fails the
\* test ends with no comparison made.
C20_NothingComparedBeforeNlocalCheck ==
    pc = "tests" /\ test.name # "none" =>
       /\ \A i \in CompareEntries(log) :
             \E c \in NlocalChecks(log) : c < i /\ log[c].held
       /\ stats.num > 0 =>
             \E c \in NlocalChecks(log) : log[c].held
       /\ \A c \in NlocalChecks(log) :
             ~log[c].held =>
                /\ CompareEntries(log) = {}
                /\ stats.num = 0
                /\ test.ip > Len(Statements)
                /\ c = Len(log)

\* a test ended by the check: fewer atoms local than there are
C20_Witness ==
    /\ pc = "tests"
    /\ test.name = "omp"
    /\ lmp.exists
    /\ lmp.nlocal < lmp.natoms
    /\ NlocalChecks(log) # {}
    /\ test.ip > Len(Statements)

\* the loop has just handled a scalar that came before any mapping start
BareScalarParsed ==
    /\ pc = "returned"
    /\ last.from = "START"
    /\ last.event.type = "SCALAR"

\* C27: a file whose first scalar comes before a top-level mapping start
\* fails to parse, the failure is reported to the caller, no decoder is
\* dispatched and every field keeps its default.
C27_BareScalarFailsTheParse ==
    BareScalarParsed =>
       /\ status # 0
       /\ nDispatch = 0
       /\ objs[config] = TestConfig

\* the part of C27 about the configuration: nothing dispatched, defaults
\* kept
BareScalarDispatchesNothing ==
    BareScalarParsed =>
       /\ state = "STOP"
       /\ nDispatch = 0
       /\ objs[config] = TestConfig

\* parse_file's loop is running
Looping == pc = "parse" /\ state \in {"START", "ACCEPT_KEY", "ACCEPT_VALUE"}

\* C29: on every finite event stream parse_file's loop ends: from START,
\* ACCEPT_KEY and ACCEPT_VALUE it reaches STOP.
C29_LoopReachesStop == Looping ~> state = "STOP"

\* the loop ends, in STOP or with the process
LoopEnds == Looping ~> (state = "STOP" \/ fault # "none")

\* no event is requested after a stream end, a parser error or a move to
\* ERROR: the pass that met one leaves the loop stopped or the process dead
NoEventAfterTheEnd ==
    [][pc = "parse" /\ pc' = "parse"
          /\ (\/ ~last'.ok
              \/ last'.event.type = "STREAM_END"
              \/ last'.to = "ERROR")
          /\ last' # last
          => state' = "STOP"]_vars

\* C26: with an argument count other than 2 or 4 the process exits 1 and
\* reads no fixture; with --gen the fixture is loaded and generate runs,
\* never a test; with --stats the tests run, print_stats set exactly for
\* "yes"; every other option exits 1 and runs no test.
C26_CommandLineDispatch ==
    /\ [](argc \notin {2, 4} => pc \in {"main", "exit"} /\ io = NoFile)
    /\ [](pc = "exit" /\ argc \notin {2, 4} =>
             exitcode = 1 /\ objs[config] = TestConfig)
    /\ [](argv.opt \notin {"", "--stats"} => pc # "tests")
    /\ [][pc = "returned" /\ status = 0 /\ pc' # "returned" =>
             CASE argc = 4 /\ argv'.opt = "--gen" ->
                    /\ pc' = "generate"
                    /\ io.opens = 1
                    /\ ~print_stats'
               [] argc = 4 /\ argv'.opt = "--stats" ->
                    /\ pc' = "tests"
                    /\ print_stats' = (argv'.arg = "yes")
               [] argc = 4 -> pc' = "exit" /\ exitcode' = 1
               [] OTHER -> pc' = "tests" /\ ~print_stats' /\ argv' = NoArgs
         ]_vars

\* main has gone on to the tests with statistics on
C26_Witness ==
    /\ pc = "tests"
    /\ argc = 4
    /\ argv = [opt |-> "--stats", arg |-> "yes"]
    /\ print_stats

\* the positions in the log of the calls with op
Calls(op) == {i \in 1 .. Len(log) : log[i].op = op}

\* the commands of the log, in their order
RECURSIVE CommandsFrom(_)
CommandsFrom(i) ==
    IF i > Len(log) THEN <<>>
    ELSE (IF log[i].op = "command" THEN <<log[i]>> ELSE <<>>)
         \o CommandsFrom(i + 1)

\* the place of a command's group in the order the claim gives
CommandRank(e) ==
    CASE e.group = "pre_commands" -> 1
      [] e.group = "input_file" -> 2
      [] e.group = "bond_style" -> 3
      [] e.group = "bond_coeff" -> 4
      [] e.group = "post_commands" -> 5
      [] e.group = "run" -> 6

\* what the commands of a group say, one by one
CommandCount(group) ==
    Cardinality({i \in Calls("command") : log[i].group = group})

InitLammpsCalled == Calls("init_lammps") # {}

SomeUnavailable == \E i \in Calls("has_style") : ~log[i].held

\* C21: init_lammps asks has_style for every prerequisite, the style with
\* "/" and the suffix appended only where the kind is "bond" and a suffix
\* is on, before it gives the engine any command.  If a prerequisite is
\* unavailable there is no command and no engine, the test compares
\* nothing and generate opens no file.  Otherwise the commands are the
\* pre_commands, the input file, bond_style, the bond_coeff entries, the
\* post_commands and the run, in this order.
C21_PrerequisitesBeforeCommands ==
    InitLammpsCalled /\ test.name # "none" =>
        /\ Cardinality(Calls("has_style")) = Len(Config.prerequisites)
        /\ \A i \in Calls("has_style") : \A j \in Calls("command") : i < j
        /\ \A i \in Calls("has_style") :
              /\ log[i].ref[1] = Config.prerequisites[log[i].k][1]
              /\ log[i].ref[2] =
                    Config.prerequisites[log[i].k][2]
                    \o (IF log[i].ref[1] = <<"b", "o", "n", "d">>
                           /\ test.name \in {"omp", "intel"}
                        THEN <<"/">> \o Suffix(test.name) ELSE <<>>)
        /\ SomeUnavailable =>
              /\ Calls("command") = {}
              /\ Calls("compare") = {}
              /\ Calls("emit") = {}
              /\ ~lmp.exists
              /\ io.opens = 0
              /\ disk = <<>>
        /\ ~SomeUnavailable =>
              /\ \A i \in 1 .. Len(CommandsFrom(1)) - 1 :
                    \/ CommandRank(CommandsFrom(1)[i])
                          < CommandRank(CommandsFrom(1)[i + 1])
                    \/ /\ CommandsFrom(1)[i].group
                             = CommandsFrom(1)[i + 1].group
                       /\ CommandsFrom(1)[i].k + 1 = CommandsFrom(1)[i + 1].k
              /\ CommandCount("pre_commands") = Len(Config.pre_commands)
              /\ CommandCount("bond_coeff") = Len(Config.bond_coeff)
              /\ CommandCount("post_commands") = Len(Config.post_commands)
              /\ CommandCount("input_file") = 1
              /\ CommandCount("bond_style") = 1
              /\ CommandCount("run") = 1
              /\ \A i \in Calls("command") :
                    /\ log[i].group = "input_file"
                          => log[i].ref = Config.input_file
                    /\ log[i].group \in {"pre_commands", "post_commands"}
                          => log[i].ref = Config[log[i].group][log[i].k]
                    /\ log[i].group = "run"
                          => SubSeq(log[i].ref, 1, 5)
                                = <<"r", "u", "n", " ", "0">>

\* a test with a suffix has found the second of its prerequisites missing
\* and has come to its end
C21_Witness ==
    /\ pc = "tests"
    /\ test.name = "omp"
    /\ test.ip > Len(Statements)
    /\ \E i \in Calls("has_style") : log[i].k = 1 /\ log[i].held
    /\ \E i \in Calls("has_style") : log[i].k = 2 /\ ~log[i].held

\* the keys of the pairs in the file, in their order
DiskKeys == [i \in 1 .. Len(disk) |-> disk[i][1]]

\* the keys generate has handed the writer, in their order
RECURSIVE EmittedFrom(_)
EmittedFrom(i) ==
    IF i > Len(log) THEN <<>>
    ELSE (IF log[i].op = "emit" THEN <<log[i].group>> ELSE <<>>)
         \o EmittedFrom(i + 1)

\* generate has written its file to the end
Written == test.name = "generate" /\ io.fp = "closed"

IsPrefix(s, t) == Len(s) <= Len(t) /\ s = SubSeq(t, 1, Len(s))

\* C22 as stated: generate emits each of the 16 keys once, in the order of
\* the reader's registry: ..., natoms, init_energy, run_energy,
\* init_stress, run_stress, init_forces, run_forces.
C22_EmitsInRegistryOrder ==
    /\ IsPrefix(EmittedFrom(1), RegistryOrder)
    /\ Written => DiskKeys = RegistryOrder

\* C22 amended: what generate hands the writer is at every moment the
\* beginning of one fixed sequence of the 16 keys, each once: ..., natoms,
\* init_energy, init_stress, init_forces, run_energy, run_stress,
\* run_forces, the three run_ keys after run_lammps; a file written to the
\* end holds exactly this sequence.
C22_EmitsInFixedOrder ==
    /\ IsPrefix(EmittedFrom(1),
                <<"lammps_version", "date_generated", "epsilon",
                  "prerequisites", "pre_commands", "post_commands",
                  "input_file", "bond_style", "bond_coeff", "natoms",
                  "init_energy", "init_stress", "init_forces",
                  "run_energy", "run_stress", "run_forces">>)
    /\ \A k \in consumers :
          Cardinality({i \in Calls("emit") : log[i].group = k}) <= 1
    /\ \A i \in Calls("emit") :
          (log[i].group \in {"run_energy", "run_stress", "run_forces"})
              <=> (\E j \in Calls("run_lammps") : j < i)
    /\ Written =>
          /\ DiskKeys = EmittedFrom(1)
          /\ Len(DiskKeys) = 16
          /\ {DiskKeys[i] : i \in 1 .. 16} = consumers

\* generate has written a file to the end and returned
C22_Witness == Written /\ pc = "exit" /\ Len(disk) = 16

\* the configuration generate wrote from, and the one read back
Original == objs["original"]

ReadBack == objs["test_config"]

Reread == pc = "reread"

\* a and b differ by no more than eps, as EXPECT_FP_LE_WITH_EPS measures
Within(a, b, eps) == DoubleLE(Err(Q(a), Q(b)), Q(eps))

StressWithin(s, t, eps) ==
    \A c \in 0 .. 5 : Within(StressMember(s, c), StressMember(t, c), eps)

BeforeRun == [ran |-> FALSE]

AfterRun == [ran |-> TRUE]

\* the fields generate writes from the configuration come back as they
\* were
ConfigFieldsReproduced ==
    \A f \in {"epsilon", "input_file", "bond_style", "prerequisites",
              "pre_commands", "post_commands", "bond_coeff"} :
        ReadBack[f] = Original[f]

\* the energies and stresses the engine gave come back within epsilon
ResultsReproduced ==
    /\ Within(ReadBack.init_energy, EngineEnergy(BeforeRun),
              Original.epsilon)
    /\ Within(ReadBack.run_energy, EngineEnergy(AfterRun), Original.epsilon)
    /\ StressWithin(ReadBack.init_stress, EngineStress(BeforeRun),
                    Original.epsilon)
    /\ StressWithin(ReadBack.run_stress, EngineStress(AfterRun),
                    Original.epsilon)

C25_HandlesClosedOnce ==
    /\ io.misuse = 0
    /\ io.closes <= io.opens
    /\ pc \in {"exit", "returned", "reread"} => io.closes = io.opens

\* the part of C25 that holds of the writer: a file that was opened is
\* closed once, after the last emit, on the one path that opens it
WriterClosesWhatItOpened ==
    /\ io.opens <= 1
    /\ io.opens = 1 => io.closes <= 1
    /\ (pc = "exit" /\ io.opens = 1) => io.closes = 1 /\ io.fp = "closed"
    /\ \A i \in Calls("close") : \A j \in Calls("emit") : j < i

\* the writer's fopen has failed and generate has gone on to its end
WriterWithoutFile ==
    /\ pc \in {"exit", "dead"}
    /\ io.fp = "null"
    /\ io.opens = 0
    /\ io.closes = 1
    /\ Cardinality(Calls("emit")) = 16

ForceEmits == {i \in Calls("emit") : log[i].group \in ForceKeys}

\* the rows of the forces text the i-th step of the log has emitted
RowsOf(i) == Lines(log[i].ref)

\* natoms is emitted before either forces block
NatomsBeforeForces ==
    \A i \in ForceEmits :
        \E j \in Calls("emit") : log[j].group = "natoms" /\ j < i

\* the first nlocal rows are the local atoms', in the order of the local
\* array, each with its tag
LocalRowsCarryTheirTag(i) ==
    /\ Len(RowsOf(i)) >= lmp.nlocal
    /\ \A r \in 1 .. lmp.nlocal :
          sscanf_row(RowsOf(i)[r]).tag = lmp.tag[r - 1]

\* every row of the emitted text is found at the index of its tag
RowsLandAtTheirTag(i) ==
    /\ size(ReadBack[log[i].group]) = ReadBack.natoms + 1
    /\ \A r \in 1 .. Len(RowsOf(i)) :
          /\ sscanf_row(RowsOf(i)[r]).tag \in DOMAIN ReadBack[log[i].group]
          /\ ReadBack[log[i].group][sscanf_row(RowsOf(i)[r]).tag]
                = coord_t(sscanf_row(RowsOf(i)[r]).vals[1],
                          sscanf_row(RowsOf(i)[r]).vals[2],
                          sscanf_row(RowsOf(i)[r]).vals[3])

\* C28: generate emits natoms before init_forces and run_forces, and one
\* force row per local atom with that atom's tag; read back in the order
\* of emission, both force arrays have natoms+1 entries and every row is
\* at the index of its tag.
C28_OneRowPerLocalAtom ==
    /\ NatomsBeforeForces
    /\ lmp.exists =>
          \A i \in ForceEmits :
              Len(RowsOf(i)) = lmp.nlocal /\ LocalRowsCarryTheirTag(i)
    /\ Reread => \A i \in ForceEmits : RowsLandAtTheirTag(i)

\* what holds of the rows: there are natoms of them, the first nlocal the
\* local atoms', after natoms
RowsUpToNatoms ==
    /\ NatomsBeforeForces
    /\ lmp.exists =>
          \A i \in ForceEmits :
              Len(RowsOf(i)) = lmp.natoms /\ LocalRowsCarryTheirTag(i)

\* generate has emitted init_forces from an engine with fewer local atoms
\* than atoms
FewerLocalAtoms ==
    /\ lmp.exists
    /\ lmp.nlocal < lmp.natoms
    /\ ForceEmits # {}

\* the test is about to read the reference forces of its statement's group
ReadsForces == At("compare") /\ Cur.group \in ForceKeys

\* the size of the group's array has been checked, and the check held
SizeChecked(group) ==
    \E i \in Calls("assert_size") : log[i].group = group /\ log[i].held

\* C30: a test reads f_ref[tag[i]] / f_run[tag[i]] only after it has
\* checked that the array has nlocal+1 entries, and the index read is
\* within the array.
C30_ForceReadsInBounds ==
    ReadsForces =>
        /\ SizeChecked(Cur.group)
        /\ RefIndex(Cur, lmp) \in DOMAIN Config[Cur.group]

\* what holds: the reads of the plain test, and in every test the reads
\* after the run, come after the check and are within the array
CheckedReadsInBounds ==
    (ReadsForces /\ (test.name = "plain" \/ Cur.group = "run_forces")) =>
        /\ SizeChecked(Cur.group)
        /\ RefIndex(Cur, lmp) \in DOMAIN Config[Cur.group]

\* the omp test is about to read init_forces of a configuration that has
\* none
UncheckedRead ==
    /\ ReadsForces
    /\ test.name = "omp"
    /\ Cur.group = "init_forces"
    /\ size(Config.init_forces) = 0

ParsedOnce == pc = "reparse" /\ io.closes >= 1 /\ io.fp = "closed"

ParsedTwice == pc = "reparse" /\ io.closes = 2

\* the last pair of the file with key f
LastOf(f) ==
    disk[CHOOSE i \in 1 .. Len(disk) :
            /\ disk[i][1] = f
            /\ \A j \in i + 1 .. Len(disk) : disk[j][1] # f]

\* the list the decoder of f makes of a value on a fresh configuration
ListOf(f, text) ==
    (CHOOSE o \in Consume(f, [c \in {config} |-> TestConfig], config,
                          text) : TRUE).objs[config][f]

\* C24: the configuration after two passes over a file is the configuration
\* after one.
C24_ReparseIdempotent == ParsedTwice => objs[config] = objs["once"]

\* what holds: a list holds the lines of the last value the file gives its
\* key, after one pass and after two, and without a forces key the second
\* pass changes nothing
ListsReplaced ==
    /\ ParsedOnce =>
          \A f \in {"prerequisites", "pre_commands"} :
              (\E i \in 1 .. Len(disk) : disk[i][1] = f) =>
                  /\ objs[config][f] = ListOf(f, LastOf(f)[2])
                  /\ objs["once"][f] = ListOf(f, LastOf(f)[2])
    /\ (ParsedTwice /\ \A i \in 1 .. Len(disk) : disk[i][1] \notin ForceKeys)
          => objs[config] = objs["once"]

\* a file that gives init_forces before natoms has been parsed twice
ForcesBeforeNatomsTwice ==
    /\ ParsedTwice
    /\ Len(disk) = 2
    /\ disk[1] = <<"init_forces", ForceRow(0)>>
    /\ disk[2][1] = "natoms"
    /\ size(objs["once"].init_forces) = 1
    /\ size(objs[config].init_forces) = 3

\* the number of comparisons the claim gives a group
GroupSize(group) ==
    CASE group \in ForceKeys -> 3 * lmp.nlocal
      [] group \in {"init_stress", "run_stress"} -> 6
      [] group = "init_energy" -> 1
      [] group = "run_energy" -> 2

\* num is not negative and idx is -1 or a position among the samples
CountAndIndexInRange ==
    /\ stats.num >= 0
    /\ idx(stats) = -1 \/ idx(stats) \in 1 .. stats.num

\* the statistics a group starts from, holds while it compares, and
\* reports: those of its own comparisons so far
StatsOfTheGroup ==
    /\ (At("compare") /\ Cur.k = 0) => stats = reset
    /\ At("compare") => stats.num = Cur.k
    /\ At("print") => stats.num = GroupSize(Cur.group)

\* C31: the ErrorStats is reset before each group, so that what is reported
\* for a group is made of that group's samples alone: the first comparison
\* of a group finds the statistics of reset, every comparison adds its one
\* error to them, and the report finds 3*nlocal samples for a force group,
\* 6 for a stress group, 1 for init_energy and 2 for run_energy; num is
\* never negative and idx is -1 or in 1..num.
C31_StatsPerGroup ==
    /\ [](CountAndIndexInRange /\ StatsOfTheGroup)
    /\ [][(TestCompare /\ pc' = "tests") => stats' = add(stats, cmp'.err)
         ]_vars

\* the plain test reports its init_stress group, which has an error, after
\* a force group that had one
C31_Witness ==
    /\ At("print")
    /\ test.name = "plain"
    /\ Cur.group = "init_stress"
    /\ stats.num = 6
    /\ max(stats) # QZero
    /\ idx(stats) = 6
    /\ test.failed

ListKeys == {"prerequisites", "pre_commands", "post_commands", "bond_coeff"}

ReaderDone == pc = "reader" /\ io.fp = "closed"

FileHas(f) == \E i \in 1 .. Len(disk) : disk[i][1] = f

\* C32: a reader constructed on an object other than the global
\* test_config leaves every value it decodes, the entries of the four
\* lists among them, in its own object, and never changes test_config.
C32_ReaderWritesOnlyItsConfig ==
    /\ pc = "reader" => objs["test_config"] = TestConfig
    /\ ReaderDone =>
          \A f \in ListKeys :
              FileHas(f) => objs[other][f] = ListOf(f, LastOf(f)[2])

\* what holds: the reader changes test_config in its four lists alone, and
\* only where the file has the key; its own object gets the scalars and
\* the forces, and with a list key an empty list
OnlyListsLeak ==
    pc = "reader" =>
        /\ \A f \in DOMAIN TestConfig \ ListKeys :
              objs["test_config"][f] = TestConfig[f]
        /\ \A f \in ListKeys :
              /\ ~FileHas(f) => objs["test_config"][f] = TestConfig[f]
              /\ objs[other][f] = <<>>
        /\ (ReaderDone /\ FileHas("bond_style")) =>
              objs[other].bond_style = LastOf("bond_style")[2]

\* the reader has parsed pre_commands into the global object
ListInTheGlobalObject ==
    /\ ReaderDone
    /\ FileHas("pre_commands")
    /\ objs[other].pre_commands = <<>>
    /\ Len(objs["test_config"].pre_commands) >= 1

=============================================================================
